---- MODULE Spec2Model ----
(***************************************************************************)
(* Bucket lifecycle reconciliation and self-healing: the create, delete    *)
(* and monitor Lambda handlers over a DynamoDB table and S3.               *)
(*                                                                         *)
(* A DynamoDB item is a function whose DOMAIN is the set of attributes it  *)
(* carries; the table is a function whose DOMAIN is the set of keys that   *)
(* have an item.  A key <<u, p>> stands for the string "u#p".  Timestamps  *)
(* (datetime.utcnow()) are readings of a clock; `now` is the latest        *)
(* reading stored anywhere, and a handler that stores a timestamp stores   *)
(* the next reading.                                                       *)
(***************************************************************************)
EXTENDS Integers, Sequences, FiniteSets, TLC

\* ------------------------------------------------------------------ bounds
MaxClock == 4
MaxUuid == 2
MaxCalls == 2

\* ------------------------------------------------------- identities, roles
Actors == {"alice", "bob", "carol", "erin"}

Projects == {"alpha"}

\* Cognito group membership of each identity (admin_list_groups_for_user)
Groups(a) ==
  CASE a = "bob" -> {"business-admins"}
    [] a = "carol" -> {"admins"}
    [] a = "erin" -> {"business-admins"}
    [] OTHER -> {}

\* the ADMIN_EMAILS allow-list of the deployment
ADMIN_EMAILS == {"erin"}

\* a variant in which a failed lookup answers with the business admins' group
get_user_groups_fail_business(user_email, lookupOk) ==
  IF lookupOk THEN Groups(user_email) ELSE {"business-admins"}

\* a variant that grants every group when the lookup fails
get_user_groups_fail_open(user_email, lookupOk) ==
  IF lookupOk THEN Groups(user_email) ELSE {"admins", "business-admins"}

get_user_groups(user_email, lookupOk) ==
  IF lookupOk THEN Groups(user_email) ELSE {}

is_super_admin(user_email, lookupOk) ==
  \/ user_email \in ADMIN_EMAILS
  \/ "admins" \in get_user_groups(user_email, lookupOk)

is_business_admin(user_email, lookupOk) ==
  "business-admins" \in get_user_groups(user_email, lookupOk)

\* ------------------------------------------------------------ item helpers
Has(item, attr) == attr \in DOMAIN item

Get(item, attr, default) == IF attr \in DOMAIN item THEN item[attr] ELSE default

\* UpdateExpression 'SET a = x, ...': upd is the function of assigned attributes
SetAttrs(item, upd) == upd @@ item

\* UpdateExpression 'REMOVE a, ...'
RemoveAttrs(item, attrs) == [x \in (DOMAIN item) \ attrs |-> item[x]]

\* item.get('should_heal', False), coerced as the monitor does
ShouldHealFlag(item) == Get(item, "should_heal", FALSE)

\* ---------------------------------------------------------------- S3 model
NoBucket ==
  [owner |-> "none", pab |-> FALSE, enc |-> FALSE,
   versioning |-> "Unset", lifecycle |-> << >>]

FreshBucket == [NoBucket EXCEPT !.owner = "us"]

\* the generated name suffixes (uuid4 hex) whose text contains "404"
Suffix404 == {2}

\* the text of a connection error names the endpoint URL, which holds the
\* bucket name
NameHas404(bucket_name) == bucket_name.uuid \in Suffix404

\* create_bucket as the service answers it for a name in state b
CreateOutcomes(b) ==
  CASE b.owner = "none" -> {"created", "error"}
    [] b.owner = "us" -> {"ok", "BucketAlreadyOwnedByYou", "error"}
    [] OTHER -> {"BucketAlreadyExists", "error"}

\* head_bucket as the service answers it for a name in state b:
\* "notfound" and "forbidden" are ClientErrors (404 / 403), "transient" is a
\* connection error (not a ClientError)
ProbeOutcomes(b) ==
  CASE b.owner = "none" -> {"notfound", "forbidden", "transient"}
    [] b.owner = "us" -> {"ok", "forbidden", "transient"}
    [] OTHER -> {"forbidden", "transient"}

\* delete_bucket (after emptying) as the service answers it
DeleteOutcomes(b) ==
  CASE b.owner = "none" -> {"NoSuchBucket", "error"}
    [] b.owner = "us" -> {"ok", "error"}
    [] OTHER -> {"error"}

\* --------------------------------------------- create-bucket: configuration
NormVersioning(v) == IF v \in {"Enabled", "Disabled"} THEN v ELSE "Enabled"

NormPolicy(l) ==
  IF l \in {"None", "Auto-Archive", "Auto-Delete", "Custom"} THEN l ELSE "None"

NoConfig == [Rules |-> << >>]

CustomRule ==
  [ID |-> "UserRule", Status |-> "Enabled", Action |-> "Expiration",
   Days |-> 7, StorageClass |-> "-"]

\* a variant whose Auto-Archive rule waits as long as the Auto-Delete rule
LifecycleConfigLateArchive(lifecycle_policy, custom_lifecycle_config) ==
  CASE lifecycle_policy = "Custom" -> custom_lifecycle_config
    [] lifecycle_policy = "Auto-Archive" ->
         [Rules |-> << [ID |-> "AutoArchiveRule", Status |-> "Enabled",
                        Action |-> "Transitions", Days |-> 90,
                        StorageClass |-> "GLACIER"] >>]
    [] lifecycle_policy = "Auto-Delete" ->
         [Rules |-> << [ID |-> "AutoDeleteVersionsRule", Status |-> "Enabled",
                        Action |-> "NoncurrentVersionExpiration", Days |-> 90,
                        StorageClass |-> "-"] >>]
    [] OTHER -> NoConfig

\* the LifecycleConfiguration create builds for a policy
LifecycleConfig(lifecycle_policy, custom_lifecycle_config) ==
  CASE lifecycle_policy = "Custom" -> custom_lifecycle_config
    [] lifecycle_policy = "Auto-Archive" ->
         [Rules |-> << [ID |-> "AutoArchiveRule", Status |-> "Enabled",
                        Action |-> "Transitions", Days |-> 30,
                        StorageClass |-> "GLACIER"] >>]
    [] lifecycle_policy = "Auto-Delete" ->
         [Rules |-> << [ID |-> "AutoDeleteVersionsRule", Status |-> "Enabled",
                        Action |-> "NoncurrentVersionExpiration", Days |-> 90,
                        StorageClass |-> "-"] >>]
    [] OTHER -> NoConfig

ConfigSteps == {"pab", "enc", "versioning", "lifecycle"}

\* the bucket after the four best-effort configuration calls of create;
\* failed is the set of calls that raised
ConfiguredBucket(versioning, lifecycle_policy, custom_lifecycle_config, failed) ==
  [owner |-> "us",
   pab |-> "pab" \notin failed,
   enc |-> "enc" \notin failed,
   versioning |-> IF versioning = "Enabled" /\ "versioning" \notin failed
                  THEN "Enabled" ELSE "Unset",
   lifecycle |-> IF lifecycle_policy /= "None" /\ "lifecycle" \notin failed
                 THEN LifecycleConfig(lifecycle_policy, custom_lifecycle_config).Rules
                 ELSE << >>]

\* the Item create puts
NewItem(key, bucket_name, user_id, display_name, versioning, lifecycle_policy, ts) ==
  [project_name |-> key, bucket_name |-> bucket_name, user_id |-> user_id,
   user_email |-> user_id, display_name |-> display_name, created_at |-> ts,
   status |-> "active", last_checked |-> ts, versioning |-> versioning,
   lifecycle_policy |-> lifecycle_policy]

\* ------------------------------------------------------------ table access
Keys == Actors \X Projects

\* update_item is an upsert: a missing item starts from its key alone
ItemOf(t, key) == IF key \in DOMAIN t THEN t[key] ELSE [project_name |-> key]

PutItem(t, key, item) == (key :> item) @@ t

\* the S3 state of a name, known or not
BucketOf(s, bucket_name) ==
  IF bucket_name \in DOMAIN s THEN s[bucket_name] ELSE NoBucket

\* ---------------------------------------------------------------- variables
VARIABLES
  tbl,                \* the DynamoDB table: key -> item
  s3,                 \* S3: bucket name -> bucket
  now,                \* the latest clock reading written to the table
  nextUuid,           \* bucket-name suffixes handed out so far
  sweepPc,            \* monitor handler: "idle" or "loop"
  sweepTs,            \* monitor: the clock reading of the running sweep
  items,              \* monitor: items_to_monitor not yet processed
  processed_buckets,  \* monitor counter
  healed_buckets,     \* monitor counter
  calls,              \* the invocations made so far by a specification that
                      \* exercises one function, each with what it returned;
                      \* in a specification of overlapping invocations, the
                      \* frame (pc and locals) of each invocation
  finalised           \* history: the keys whose record has been deleted with
                      \* should_heal false since it was put

vars ==
  << tbl, s3, now, nextUuid, sweepPc, sweepTs, items, processed_buckets,
     healed_buckets, calls, finalised >>

sweepVars == << sweepPc, sweepTs, items, processed_buckets, healed_buckets >>

Init ==
  /\ tbl = << >>
  /\ s3 = << >>
  /\ now = 0
  /\ nextUuid = 0
  /\ sweepPc = "idle"
  /\ sweepTs = 0
  /\ items = {}
  /\ processed_buckets = 0
  /\ healed_buckets = 0
  /\ calls = << >>
  /\ finalised = {}

\* a record deleted for good: status deleted, should_heal false or absent
DeletedTerminal(item) ==
  Get(item, "status", "active") = "deleted" /\ ~ShouldHealFlag(item)

\* a record deleted provisionally: status deleted, should_heal true
DeletedHealable(item) ==
  Get(item, "status", "active") = "deleted" /\ ShouldHealFlag(item)

Finalised(old, t) == old \cup {k \in DOMAIN t : DeletedTerminal(t[k])}

\* ------------------------------------------------------------ create-bucket
NoCustom == [given |-> FALSE, Rules |-> << >>]

\* a variant with no cleanup after a failed metadata write
CreateResultNoCleanup(t, s, clock, uuid, user_id, project_name, versioning_in, policy_in, custom, getOk, createOk, failed, putOk, updOk, cleanupOk) ==
  LET versioning == NormVersioning(versioning_in)
      lifecycle_policy == NormPolicy(policy_in)
      key == << user_id, project_name >>
      bucket_name == [project |-> project_name, uuid |-> uuid + 1]
      ts == clock + 1
      bucket == ConfiguredBucket(versioning, lifecycle_policy, custom, failed)
      item == NewItem(key, bucket_name, user_id, project_name, versioning,
                      lifecycle_policy, ts)
      isCustom == lifecycle_policy = "Custom" /\ custom.given
      persisted == putOk /\ (isCustom => updOk)
      unchanged == [tbl |-> t, s3 |-> s, now |-> clock, nextUuid |-> uuid]
  IN
  IF lifecycle_policy = "Custom" /\ ~custom.given
    THEN [code |-> 400] @@ unchanged
  ELSE IF getOk /\ key \in DOMAIN t
    THEN [code |-> 409] @@ unchanged
  ELSE IF ~createOk
    THEN [code |-> 500] @@ unchanged
  ELSE
    [code |-> IF persisted THEN 200 ELSE 500,
     bucket_name |-> bucket_name,
     tbl |-> IF ~putOk THEN t
             ELSE IF isCustom /\ updOk
               THEN PutItem(t, key,
                            SetAttrs(item, [custom_lifecycle_config |-> custom]))
             ELSE PutItem(t, key, item),
     s3 |-> (bucket_name :> bucket) @@ s,
     now |-> IF putOk THEN ts ELSE clock,
     nextUuid |-> uuid + 1]

\* create-bucket lambda_handler for an authenticated request with a valid
\* project name: the status code it returns and the table, S3 and counters it
\* leaves.  getOk, createOk, putOk, updOk, cleanupOk: whether get_item,
\* create_bucket, put_item, the custom-config update_item and the cleanup
\* delete_bucket return; failed: the configuration calls that raise.
CreateResult(t, s, clock, uuid, user_id, project_name, versioning_in, policy_in, custom, getOk, createOk, failed, putOk, updOk, cleanupOk) ==
  LET versioning == NormVersioning(versioning_in)
      lifecycle_policy == NormPolicy(policy_in)
      key == << user_id, project_name >>
      bucket_name == [project |-> project_name, uuid |-> uuid + 1]
      ts == clock + 1
      bucket == ConfiguredBucket(versioning, lifecycle_policy, custom, failed)
      item == NewItem(key, bucket_name, user_id, project_name, versioning,
                      lifecycle_policy, ts)
      isCustom == lifecycle_policy = "Custom" /\ custom.given
      persisted == putOk /\ (isCustom => updOk)
      unchanged == [tbl |-> t, s3 |-> s, now |-> clock, nextUuid |-> uuid]
  IN
  IF lifecycle_policy = "Custom" /\ ~custom.given
    THEN [code |-> 400] @@ unchanged
  ELSE IF getOk /\ key \in DOMAIN t
    THEN [code |-> 409] @@ unchanged
  ELSE IF ~createOk
    THEN [code |-> 500] @@ unchanged
  ELSE
    [code |-> IF persisted THEN 200 ELSE 500,
     bucket_name |-> bucket_name,
     tbl |-> IF ~putOk THEN t
             ELSE IF isCustom /\ updOk
               THEN PutItem(t, key,
                            SetAttrs(item, [custom_lifecycle_config |-> custom]))
             ELSE PutItem(t, key, item),
     s3 |-> (bucket_name :> IF persisted \/ ~cleanupOk THEN bucket ELSE NoBucket)
            @@ s,
     now |-> IF putOk THEN ts ELSE clock,
     nextUuid |-> uuid + 1]

Create(user_id, project_name, versioning_in, policy_in, custom, getOk, createOk, failed, putOk, updOk, cleanupOk) ==
  LET r == CreateResult(tbl, s3, now, nextUuid, user_id, project_name,
                        versioning_in, policy_in, custom, getOk, createOk,
                        failed, putOk, updOk, cleanupOk)
  IN
  /\ sweepPc = "idle"
  /\ now < MaxClock
  /\ r.nextUuid <= MaxUuid
  /\ tbl' = r.tbl
  /\ s3' = r.s3
  /\ now' = r.now
  /\ nextUuid' = r.nextUuid
  /\ finalised' = IF r.tbl /= tbl
                    THEN finalised \ {<< user_id, project_name >>}
                    ELSE finalised
  /\ UNCHANGED << sweepVars, calls >>

\* ------------------------------------------------------------ delete-bucket
\* the two-role variant: every admin's deletion is final
decide_should_heal_two_role(is_owner, is_super_admin_user, is_business_admin_user) ==
  LET is_admin_user == is_super_admin_user \/ is_business_admin_user IN
  IF is_owner \/ is_admin_user THEN FALSE ELSE TRUE

\* the should_heal decision of delete-bucket lambda_handler
decide_should_heal(is_owner, is_super_admin_user, is_business_admin_user) ==
  LET is_admin_user == is_super_admin_user \/ is_business_admin_user IN
  IF is_owner /\ ~is_admin_user THEN FALSE
  ELSE IF is_business_admin_user THEN TRUE
  ELSE IF is_super_admin_user THEN FALSE
  ELSE IF ~is_owner /\ ~is_admin_user THEN TRUE
  ELSE FALSE

\* the UpdateExpression that records a deletion
DeleteUpdate(item, ts, user_id, user_email, should_heal) ==
  SetAttrs(item, [deleted_at |-> ts, deleted_by |-> user_id,
                  deleted_by_email |-> user_email,
                  should_heal |-> should_heal, status |-> "deleted"])

\* the keys a scan filtered on display_name returns
ScanByDisplayName(t, project_name) ==
  {k \in DOMAIN t : Get(t[k], "display_name", "") = project_name}

\* the key delete-bucket resolves: the caller's own item, else for an admin
\* the scan's first item `match`; << "", "" >> when there is none
ResolveKey(t, user_id, project_name, is_admin_user, match) ==
  IF << user_id, project_name >> \in DOMAIN t THEN << user_id, project_name >>
  ELSE IF is_admin_user /\ match \in ScanByDisplayName(t, project_name) THEN match
  ELSE << "", "" >>

\* a variant that records the deletion whatever delete_bucket answers
DeleteResultPastS3Error(t, s, clock, user_id, project_name, superOk, businessOk, getOk, match, out, dbOk) ==
  LET is_super_admin_user == is_super_admin(user_id, superOk)
      is_business_admin_user == is_business_admin(user_id, businessOk)
      is_admin_user == is_super_admin_user \/ is_business_admin_user
      bucket_key == ResolveKey(t, user_id, project_name, is_admin_user, match)
      bucket_item == t[bucket_key]
      bucket_name == bucket_item.bucket_name
      is_owner == user_id = bucket_item.user_id
      should_heal == decide_should_heal(is_owner, is_super_admin_user,
                                        is_business_admin_user)
      ts == clock + 1
      unchanged == [tbl |-> t, s3 |-> s, now |-> clock]
  IN
  IF ~getOk THEN [code |-> 500] @@ unchanged
  ELSE IF bucket_key \notin DOMAIN t THEN [code |-> 404] @@ unchanged
  ELSE IF ~is_admin_user /\ ~is_owner THEN [code |-> 403] @@ unchanged
  ELSE
    [code |-> 200, key |-> bucket_key, should_heal |-> should_heal,
     is_owner |-> is_owner,
     s3 |-> IF out \in {"ok", "NoSuchBucket"}
              THEN (bucket_name :> NoBucket) @@ s ELSE s,
     tbl |-> IF dbOk
               THEN PutItem(t, bucket_key,
                            DeleteUpdate(ItemOf(t, bucket_key), ts, user_id,
                                         user_id, should_heal))
               ELSE t,
     now |-> IF dbOk THEN ts ELSE clock]

\* delete-bucket lambda_handler for an authenticated request naming a project:
\* the status code and should_heal it returns and the table and S3 it leaves.
\* superOk, businessOk: whether the two group lookups return; getOk: whether
\* the metadata reads return; match: the scan's first item; out: the answer
\* of delete_bucket; dbOk: whether update_item returns.
DeleteResult(t, s, clock, user_id, project_name, superOk, businessOk, getOk, match, out, dbOk) ==
  LET is_super_admin_user == is_super_admin(user_id, superOk)
      is_business_admin_user == is_business_admin(user_id, businessOk)
      is_admin_user == is_super_admin_user \/ is_business_admin_user
      bucket_key == ResolveKey(t, user_id, project_name, is_admin_user, match)
      bucket_item == t[bucket_key]
      bucket_name == bucket_item.bucket_name
      is_owner == user_id = bucket_item.user_id
      should_heal == decide_should_heal(is_owner, is_super_admin_user,
                                        is_business_admin_user)
      ts == clock + 1
      unchanged == [tbl |-> t, s3 |-> s, now |-> clock]
  IN
  IF ~getOk THEN [code |-> 500] @@ unchanged
  ELSE IF bucket_key \notin DOMAIN t THEN [code |-> 404] @@ unchanged
  ELSE IF ~is_admin_user /\ ~is_owner THEN [code |-> 403] @@ unchanged
  ELSE IF out \notin {"ok", "NoSuchBucket"}
    THEN [code |-> 500, key |-> bucket_key] @@ unchanged
  ELSE
    [code |-> 200, key |-> bucket_key, should_heal |-> should_heal,
     is_owner |-> is_owner,
     s3 |-> (bucket_name :> NoBucket) @@ s,
     tbl |-> IF dbOk
               THEN PutItem(t, bucket_key,
                            DeleteUpdate(ItemOf(t, bucket_key), ts, user_id,
                                         user_id, should_heal))
               ELSE t,
     now |-> IF dbOk THEN ts ELSE clock]

\* the answers delete_bucket can give for the item under key
DeleteChoices(t, s, key) ==
  IF key \in DOMAIN t THEN DeleteOutcomes(BucketOf(s, t[key].bucket_name))
  ELSE {"error"}

Delete(user_id, project_name, superOk, businessOk, getOk, match, out, dbOk) ==
  LET r == DeleteResult(tbl, s3, now, user_id, project_name, superOk,
                        businessOk, getOk, match, out, dbOk)
      is_admin_user == is_super_admin(user_id, superOk)
                       \/ is_business_admin(user_id, businessOk)
  IN
  /\ sweepPc = "idle"
  /\ now < MaxClock
  /\ out \in DeleteChoices(tbl, s3, ResolveKey(tbl, user_id, project_name,
                                               is_admin_user, match))
  /\ tbl' = r.tbl
  /\ s3' = r.s3
  /\ now' = r.now
  /\ finalised' = Finalised(finalised, r.tbl)
  /\ UNCHANGED << nextUuid, sweepVars, calls >>

\* ---------------------------------------------------------- monitor-buckets
\* a variant of the filter that keeps every deleted record that has deleted_at
NeedsMonitoringAnyDeleted(item) ==
  LET status == Get(item, "status", "active") IN
  \/ status = "active"
  \/ status = "deleted" /\ Has(item, "deleted_at")

\* a variant of the filter that keeps the active records only
NeedsMonitoringActiveOnly(item) == Get(item, "status", "active") = "active"

\* the filter that builds items_to_monitor
NeedsMonitoring(item) ==
  LET status == Get(item, "status", "active") IN
  \/ status = "active"
  \/ status = "deleted" /\ Has(item, "deleted_at") /\ ShouldHealFlag(item)

\* how the two except clauses read the answer of head_bucket
ProbeClass(probe, bucket_name) ==
  CASE probe = "ok" -> "exists"
    [] probe = "notfound" -> "missing"
    [] probe = "transient" /\ NameHas404(bucket_name) -> "missing_by_text"
    [] OTHER -> "error"

\* a variant that heals provisional deletions only
HealDecisionDeletedOnly(item, class) ==
  CASE class = "missing_by_text" -> TRUE
    [] class = "missing" ->
         Has(item, "deleted_at") /\ Get(item, "should_heal", FALSE)
         /\ Get(item, "status", "active") = "deleted"
    [] OTHER -> FALSE

\* whether the 'missing' case calls recreate_bucket for the item
HealDecision(item, class) ==
  CASE class = "missing_by_text" -> TRUE
    [] class = "missing" ->
         IF Has(item, "deleted_at")
           THEN Get(item, "should_heal", FALSE)
                /\ Get(item, "status", "active") = "deleted"
           ELSE TRUE
    [] OTHER -> FALSE

\* a variant of the refresh that stamps healed_at too
RefreshUpdateStampingHeal(item, ts) ==
  SetAttrs(item, [last_checked |-> ts, healed_at |-> ts])

\* 'SET last_checked = :timestamp'
RefreshUpdate(item, ts) == SetAttrs(item, [last_checked |-> ts])

\* a variant of the restore that counts as a heal
RestoreUpdateCountingHeal(item, ts) ==
  RemoveAttrs(SetAttrs(item, [last_checked |-> ts, status |-> "active",
                              healed_at |-> ts,
                              heal_count |-> Get(item, "heal_count", 0) + 1]),
              {"should_heal"})

\* 'SET last_checked = :timestamp, #status = :active REMOVE should_heal'
RestoreUpdate(item, ts) ==
  RemoveAttrs(SetAttrs(item, [last_checked |-> ts, status |-> "active"]),
              {"should_heal"})

\* a variant whose REMOVE clause also drops the deletion metadata
HealUpdateErasingAudit(item, ts) ==
  RemoveAttrs(SetAttrs(item, [last_checked |-> ts, healed_at |-> ts,
                              heal_count |-> Get(item, "heal_count", 0) + 1,
                              status |-> "active"]),
              {"should_heal", "deleted_at", "deleted_by", "deleted_by_email"})

\* a variant whose expression has no REMOVE clause
HealUpdateKeepingFlag(item, ts) ==
  SetAttrs(item, [last_checked |-> ts, healed_at |-> ts,
                  heal_count |-> Get(item, "heal_count", 0) + 1,
                  status |-> "active"])

\* the UpdateExpression of recreate_bucket
HealUpdate(item, ts) ==
  RemoveAttrs(SetAttrs(item, [last_checked |-> ts, healed_at |-> ts,
                              heal_count |-> Get(item, "heal_count", 0) + 1,
                              status |-> "active"]),
              {"should_heal"})

\* a variant in which every answered create_bucket leaves a new bucket
RecreatedBucketAnew(b, create, pabOk, encOk) ==
  LET b1 == IF create \in {"created", "ok", "BucketAlreadyOwnedByYou"}
              THEN FreshBucket ELSE b
      b2 == IF pabOk /\ b1.owner = "us" THEN [b1 EXCEPT !.pab = TRUE] ELSE b1
  IN IF encOk /\ b2.owner = "us" THEN [b2 EXCEPT !.enc = TRUE] ELSE b2

\* the bucket after recreate_bucket's S3 calls: create_bucket answered
\* `create`; pabOk, encOk: whether the two configuration calls return
RecreatedBucket(b, create, pabOk, encOk) ==
  LET b1 == IF create = "created" THEN FreshBucket ELSE b
      b2 == IF pabOk /\ b1.owner = "us" THEN [b1 EXCEPT !.pab = TRUE] ELSE b1
  IN IF encOk /\ b2.owner = "us" THEN [b2 EXCEPT !.enc = TRUE] ELSE b2

\* a variant that gives the record up when create_bucket fails
recreate_bucket_giving_up(s, t, bucket_name, project_name, ts, create, pabOk, encOk, dbOk) ==
  IF create \notin {"created", "ok", "BucketAlreadyOwnedByYou", "BucketAlreadyExists"}
    THEN [ret |-> FALSE, s3 |-> s,
          tbl |-> PutItem(t, project_name,
                          RemoveAttrs(ItemOf(t, project_name), {"should_heal"}))]
    ELSE [ret |-> TRUE,
          s3 |-> (bucket_name :> RecreatedBucket(BucketOf(s, bucket_name), create,
                                                 pabOk, encOk)) @@ s,
          tbl |-> IF dbOk
                    THEN PutItem(t, project_name,
                                 HealUpdate(ItemOf(t, project_name), ts))
                    ELSE t]

\* a variant that carries on after any create_bucket error
recreate_bucket_past_create_error(s, t, bucket_name, project_name, ts, create, pabOk, encOk, dbOk) ==
  [ret |-> TRUE,
   s3 |-> (bucket_name :> RecreatedBucket(BucketOf(s, bucket_name), create,
                                          pabOk, encOk)) @@ s,
   tbl |-> IF dbOk
             THEN PutItem(t, project_name, HealUpdate(ItemOf(t, project_name), ts))
             ELSE t]

\* recreate_bucket: the value it returns and the S3 and table it leaves
recreate_bucket(s, t, bucket_name, project_name, ts, create, pabOk, encOk, dbOk) ==
  IF create \notin {"created", "ok", "BucketAlreadyOwnedByYou", "BucketAlreadyExists"}
    THEN [ret |-> FALSE, s3 |-> s, tbl |-> t]
    ELSE [ret |-> TRUE,
          s3 |-> (bucket_name :> RecreatedBucket(BucketOf(s, bucket_name), create,
                                                 pabOk, encOk)) @@ s,
          tbl |-> IF dbOk
                    THEN PutItem(t, project_name,
                                 HealUpdate(ItemOf(t, project_name), ts))
                    ELSE t]

\* the table after the 'bucket exists' branch of the loop body
ExistsUpdate(t, item, ts, dbOk) ==
  IF ~dbOk THEN t
  ELSE IF Get(item, "status", "active") = "deleted" /\ ShouldHealFlag(item)
    THEN PutItem(t, item.project_name,
                 RestoreUpdate(ItemOf(t, item.project_name), ts))
  ELSE PutItem(t, item.project_name,
               RefreshUpdate(ItemOf(t, item.project_name), ts))

\* lambda_handler up to the loop: scan, filter, early return on an empty list
SweepScan(scanOk) ==
  LET monitored == {tbl[k] : k \in {j \in DOMAIN tbl : NeedsMonitoring(tbl[j])}} IN
  /\ sweepPc = "idle"
  /\ now < MaxClock
  /\ scanOk
  /\ monitored /= {}
  /\ sweepPc' = "loop"
  /\ sweepTs' = now + 1
  /\ items' = monitored
  /\ processed_buckets' = 0
  /\ healed_buckets' = 0
  /\ UNCHANGED << tbl, s3, now, nextUuid, calls, finalised >>

\* one iteration of the loop over items_to_monitor
SweepItem(item, probe, create, pabOk, encOk, dbOk) ==
  LET bucket_name == item.bucket_name
      project_name == item.project_name
      class == ProbeClass(probe, bucket_name)
      r == recreate_bucket(s3, tbl, bucket_name, project_name, sweepTs,
                           create, pabOk, encOk, dbOk)
  IN
  /\ sweepPc = "loop"
  /\ item \in items
  /\ probe \in ProbeOutcomes(BucketOf(s3, bucket_name))
  /\ create \in CreateOutcomes(BucketOf(s3, bucket_name))
  /\ items' = items \ {item}
  /\ processed_buckets' = processed_buckets + 1
  /\ UNCHANGED << nextUuid, sweepPc, sweepTs, calls >>
  /\ IF class = "exists"
       THEN /\ tbl' = ExistsUpdate(tbl, item, sweepTs, dbOk)
            /\ UNCHANGED << s3, healed_buckets >>
     ELSE IF HealDecision(item, class)
       THEN /\ tbl' = r.tbl
            /\ s3' = r.s3
            /\ healed_buckets' = IF r.ret THEN healed_buckets + 1 ELSE healed_buckets
     ELSE UNCHANGED << tbl, s3, healed_buckets >>
  /\ now' = IF tbl' /= tbl THEN sweepTs ELSE now
  /\ finalised' = Finalised(finalised, tbl')

\* the return after the loop; the handler's locals are gone afterwards
SweepReturn ==
  /\ sweepPc = "loop"
  /\ items = {}
  /\ sweepPc' = "idle"
  /\ sweepTs' = 0
  /\ processed_buckets' = 0
  /\ healed_buckets' = 0
  /\ UNCHANGED << tbl, s3, now, nextUuid, items, calls, finalised >>

\* ------------------------------------------------------------- environment
\* a bucket removed outside the system (console, CLI, direct API call)
ExternalDelete(bucket_name) ==
  /\ bucket_name \in DOMAIN s3
  /\ s3[bucket_name].owner = "us"
  /\ s3' = [s3 EXCEPT ![bucket_name] = NoBucket]
  /\ UNCHANGED << tbl, now, nextUuid, sweepVars, calls, finalised >>

\* --------------------------------------------------------------- behaviours
\* the requests and service faults the behaviours draw from: every request
\* runs with no fault or with one of the listed faults
NoFault ==
  [getOk |-> TRUE, createOk |-> TRUE, failed |-> {}, putOk |-> TRUE,
   updOk |-> TRUE, cleanupOk |-> TRUE, superOk |-> TRUE, businessOk |-> TRUE,
   dbOk |-> TRUE, pabOk |-> TRUE, encOk |-> TRUE]

CreateFaults ==
  {NoFault,
   [NoFault EXCEPT !.getOk = FALSE],
   [NoFault EXCEPT !.createOk = FALSE],
   [NoFault EXCEPT !.failed = ConfigSteps],
   [NoFault EXCEPT !.putOk = FALSE],
   [NoFault EXCEPT !.putOk = FALSE, !.cleanupOk = FALSE]}

CreateConfigs ==
  {[versioning |-> "Enabled", lifecycle_policy |-> "Auto-Archive",
    custom |-> NoCustom]}

DeleteFaults ==
  {NoFault,
   [NoFault EXCEPT !.superOk = FALSE],
   [NoFault EXCEPT !.businessOk = FALSE],
   [NoFault EXCEPT !.superOk = FALSE, !.businessOk = FALSE],
   [NoFault EXCEPT !.getOk = FALSE],
   [NoFault EXCEPT !.dbOk = FALSE]}

HealFaults ==
  {NoFault,
   [NoFault EXCEPT !.dbOk = FALSE],
   [NoFault EXCEPT !.pabOk = FALSE, !.encOk = FALSE]}

\* the scan's first item, or the caller's own key where no scan is made
MatchChoices(user_id, project_name) ==
  IF << user_id, project_name >> \in DOMAIN tbl
       \/ ScanByDisplayName(tbl, project_name) = {}
    THEN {<< user_id, project_name >>}
    ELSE ScanByDisplayName(tbl, project_name)

Outcomes == {"created", "ok", "BucketAlreadyOwnedByYou", "BucketAlreadyExists",
             "NoSuchBucket", "notfound", "forbidden", "transient", "error"}

DoCreate ==
  \E user_id \in Actors, project_name \in Projects, c \in CreateConfigs,
     f \in CreateFaults :
    Create(user_id, project_name, c.versioning, c.lifecycle_policy, c.custom,
           f.getOk, f.createOk, f.failed, f.putOk, f.updOk, f.cleanupOk)

DoDelete ==
  \E user_id \in Actors, project_name \in Projects, f \in DeleteFaults :
    \E match \in MatchChoices(user_id, project_name), out \in Outcomes :
      Delete(user_id, project_name, f.superOk, f.businessOk, f.getOk,
             match, out, f.dbOk)

DoSweepScan == SweepScan(TRUE)

DoSweepItem ==
  \E item \in items, f \in HealFaults, probe \in Outcomes, create \in Outcomes :
    SweepItem(item, probe, create, f.pabOk, f.encOk, f.dbOk)

DoExternalDelete == \E bucket_name \in DOMAIN s3 : ExternalDelete(bucket_name)

Next ==
  \/ DoCreate
  \/ DoDelete
  \/ DoSweepScan
  \/ DoSweepItem
  \/ SweepReturn
  \/ DoExternalDelete

Spec == Init /\ [][Next]_vars

\* ------------------------------------------------ provisioning, invoked twice
\* the record and bucket name recreate_bucket is invoked for
ProvisionKey == << "alice", "alpha" >>

ProvisionName == [project |-> "alpha", uuid |-> 1]

\* a bucket the system owns, in any configuration the create path can leave
OwnedBuckets ==
  {[owner |-> "us", pab |-> p, enc |-> e, versioning |-> v, lifecycle |-> l] :
     p \in BOOLEAN, e \in BOOLEAN, v \in {"Unset", "Enabled"},
     l \in {<< >>, LifecycleConfig("Auto-Archive", NoConfig).Rules}}

InitProvision ==
  /\ tbl = (ProvisionKey :>
              NewItem(ProvisionKey, ProvisionName, "alice", "alpha", "Enabled",
                      "Auto-Archive", 1))
  /\ s3 \in {(ProvisionName :> b) : b \in OwnedBuckets}
  /\ now = 1
  /\ nextUuid = 1
  /\ sweepPc = "idle"
  /\ sweepTs = 0
  /\ items = {}
  /\ processed_buckets = 0
  /\ healed_buckets = 0
  /\ calls = << >>
  /\ finalised = {}

\* one more invocation of recreate_bucket for the same bucket, create_bucket
\* answering for a name the account owns
Reinvoke(create, pabOk, encOk, dbOk) ==
  LET r == recreate_bucket(s3, tbl, ProvisionName, ProvisionKey, now + 1,
                           create, pabOk, encOk, dbOk)
  IN
  /\ Len(calls) < MaxCalls
  /\ create \in CreateOutcomes(BucketOf(s3, ProvisionName)) \ {"error"}
  /\ calls' = Append(calls, [create |-> create, pabOk |-> pabOk, encOk |-> encOk,
                             ret |-> r.ret, before |-> s3[ProvisionName]])
  /\ s3' = r.s3
  /\ tbl' = r.tbl
  /\ now' = IF dbOk THEN now + 1 ELSE now
  /\ UNCHANGED << nextUuid, sweepVars, finalised >>

NextProvision ==
  \E create \in Outcomes, pabOk \in BOOLEAN, encOk \in BOOLEAN, dbOk \in BOOLEAN :
    Reinvoke(create, pabOk, encOk, dbOk)

SpecProvision == InitProvision /\ [][NextProvision]_vars

\* ------------------------------------------------------------------- claims
DeleteStep(user_id, project_name, f, match, out) ==
  Delete(user_id, project_name, f.superOk, f.businessOk, f.getOk, match, out,
         f.dbOk)

DeleteOf(user_id, project_name, f, match, out) ==
  DeleteResult(tbl, s3, now, user_id, project_name, f.superOk, f.businessOk,
               f.getOk, match, out, f.dbOk)

SweepItemStep(item, f, probe, create) ==
  SweepItem(item, probe, create, f.pabOk, f.encOk, f.dbOk)

\* a step of the monitor handler
SweepStep == sweepPc = "loop" \/ sweepPc' = "loop"

\* the deletion metadata an item carries
Audit(item) ==
  [a \in {"deleted_at", "deleted_by", "deleted_by_email"} \cap DOMAIN item |->
     item[a]]

HealCount(item) == Get(item, "heal_count", 0)

Absent(s, bucket_name) == BucketOf(s, bucket_name).owner = "none"

Present(s, bucket_name) == BucketOf(s, bucket_name).owner = "us"

\* the step is a sweep step that created the container of record k anew
Recreated(k) ==
  /\ sweepPc = "loop"
  /\ Absent(s3, tbl[k].bucket_name)
  /\ Present(s3', tbl[k].bucket_name)

\* C1: every deletion the delete path performs for the record's owner computes
\* and stores should_heal = false, and no sweep step changes a record its
\* owner deleted: it stays deleted with should_heal false and its container
\* stays absent.
C1_OwnerDeletionIsNotHealed ==
  [][/\ \A user_id \in Actors, project_name \in Projects, f \in DeleteFaults :
          \A match \in MatchChoices(user_id, project_name), out \in Outcomes :
            LET r == DeleteOf(user_id, project_name, f, match, out) IN
            (DeleteStep(user_id, project_name, f, match, out)
               /\ r.code = 200 /\ r.is_owner)
            => /\ r.should_heal = FALSE
               /\ f.dbOk => tbl'[r.key].should_heal = FALSE
     /\ \A k \in DOMAIN tbl :
          (/\ SweepStep
           /\ Get(tbl[k], "status", "active") = "deleted"
           /\ Get(tbl[k], "deleted_by", "") = tbl[k].user_id)
          => /\ DeletedTerminal(tbl[k])
             /\ DeletedTerminal(tbl'[k])
             /\ Absent(s3', tbl[k].bucket_name)
    ]_vars

\* a record whose stored deletion was made by a business-admin other than the
\* record's owner and is provisional
DeletedByBusinessAdmin(item) ==
  /\ DeletedHealable(item)
  /\ Has(item, "deleted_at")
  /\ Has(item, "deleted_by")
  /\ item.deleted_by /= item.user_id
  /\ is_business_admin(item.deleted_by, TRUE)

\* every deletion the delete path can perform in this state for an actor it
\* resolves as a business-admin, on a record of another user, returns and
\* stores should_heal = true with the actor and the next clock reading
BusinessAdminDeletionsAreProvisional ==
  \A user_id \in Actors, project_name \in Projects, f \in DeleteFaults :
    \A match \in MatchChoices(user_id, project_name), out \in Outcomes :
      LET r == DeleteOf(user_id, project_name, f, match, out)
          is_admin_user == is_super_admin(user_id, f.superOk)
                           \/ is_business_admin(user_id, f.businessOk)
      IN
      (/\ is_business_admin(user_id, f.businessOk)
       /\ out \in DeleteChoices(tbl, s3, ResolveKey(tbl, user_id, project_name,
                                                    is_admin_user, match))
       /\ r.code = 200
       /\ ~r.is_owner)
      => /\ r.should_heal = TRUE
         /\ f.dbOk => /\ r.tbl[r.key].should_heal = TRUE
                      /\ r.tbl[r.key].status = "deleted"
                      /\ r.tbl[r.key].deleted_by = user_id
                      /\ r.tbl[r.key].deleted_at = now + 1
                      /\ DeletedByBusinessAdmin(r.tbl[r.key])

\* C2: a deletion the delete path performs for an actor it resolves as a
\* business-admin, on a record of another user, computes and stores
\* should_heal = true; the next sweep lists the record, and when its probe
\* answers 'not found', create_bucket creates the bucket and the metadata
\* update returns, the container exists again, status is active, heal_count
\* is one more than before and deleted_at, deleted_by are as the deletion
\* wrote them.
C2_BusinessAdminDeletionIsHealed ==
  /\ []BusinessAdminDeletionsAreProvisional
  /\ [][/\ (sweepPc = "idle" /\ sweepPc' = "loop")
           => \A k \in DOMAIN tbl :
                DeletedByBusinessAdmin(tbl[k]) => tbl[k] \in items'
        /\ \A item \in items, f \in HealFaults :
             (SweepItemStep(item, f, "notfound", "created")
                /\ f.dbOk /\ DeletedByBusinessAdmin(item))
             => LET k == item.project_name IN
                /\ Present(s3', item.bucket_name)
                /\ tbl'[k].status = "active"
                /\ tbl'[k].heal_count = HealCount(tbl[k]) + 1
                /\ tbl'[k].deleted_at = item.deleted_at
                /\ tbl'[k].deleted_by = item.deleted_by
                /\ Audit(tbl'[k]) = Audit(tbl[k])
       ]_vars

\* C2 witness: a record a business-admin deleted for another user, healed once
\* by a later sweep, its deletion metadata still in place
C2_Witness ==
  \E k \in DOMAIN tbl :
    /\ tbl[k].status = "active"
    /\ Has(tbl[k], "deleted_by") /\ Has(tbl[k], "deleted_at")
    /\ tbl[k].deleted_by /= tbl[k].user_id
    /\ is_business_admin(tbl[k].deleted_by, TRUE)
    /\ HealCount(tbl[k]) = 1
    /\ Get(tbl[k], "healed_at", 0) > tbl[k].deleted_at
    /\ Present(s3, tbl[k].bucket_name)

\* C3: every deletion the delete path performs for a super-admin (by the
\* allow-list or by the admins group) computes and stores should_heal = false,
\* whoever owns the record and whatever other groups the actor is in.
C3_SuperAdminDeletionIsFinal ==
  [][\A user_id \in Actors, project_name \in Projects, f \in DeleteFaults :
       \A match \in MatchChoices(user_id, project_name), out \in Outcomes :
         LET r == DeleteOf(user_id, project_name, f, match, out) IN
         (DeleteStep(user_id, project_name, f, match, out)
            /\ r.code = 200 /\ is_super_admin(user_id, f.superOk))
         => /\ r.should_heal = FALSE
            /\ f.dbOk => tbl'[r.key].should_heal = FALSE
    ]_vars

\* C4: a sweep lists every active record, holds each record once, and when it
\* processes an active record with no deletion metadata whose probe answers
\* 'not found', with create_bucket creating the bucket and the metadata update
\* returning, the container exists, heal_count is exactly one more, status is
\* active, should_heal is absent, and the sweep does not hold the record again.
C4_OrphanHealedOnce ==
  [][/\ (sweepPc = "idle" /\ sweepPc' = "loop")
        => /\ \A k \in DOMAIN tbl :
                Get(tbl[k], "status", "active") = "active" => tbl[k] \in items'
           /\ \A i, j \in items' : i.project_name = j.project_name => i = j
     /\ \A item \in items, f \in HealFaults :
          (/\ SweepItemStep(item, f, "notfound", "created")
           /\ f.dbOk
           /\ Get(item, "status", "active") = "active"
           /\ DOMAIN Audit(item) = {})
          => LET k == item.project_name IN
             /\ Absent(s3, item.bucket_name)
             /\ Present(s3', item.bucket_name)
             /\ tbl'[k].heal_count = HealCount(tbl[k]) + 1
             /\ tbl'[k].status = "active"
             /\ ~Has(tbl'[k], "should_heal")
             /\ healed_buckets' = healed_buckets + 1
             /\ \A i \in items' : i.project_name /= k
    ]_vars

\* C4 witness: an active record that never carried deletion metadata, healed
\* once, its container in place
C4_Witness ==
  \E k \in DOMAIN tbl :
    /\ tbl[k].status = "active"
    /\ ~Has(tbl[k], "deleted_at")
    /\ HealCount(tbl[k]) = 1
    /\ Has(tbl[k], "healed_at")
    /\ Present(s3, tbl[k].bucket_name)

\* C5: a record that has been deleted with should_heal false is never active
\* again and its container never exists again, whatever delete requests and
\* sweeps follow.
C5_TerminalDeletionIsFinal ==
  \A k \in finalised :
    /\ k \in DOMAIN tbl
    /\ Get(tbl[k], "status", "active") /= "active"
    /\ ~Present(s3, tbl[k].bucket_name)

\* the attributes a heal or a refresh writes
SweepWritten == {"status", "should_heal", "heal_count", "healed_at", "last_checked"}

\* C6: a sweep iteration whose probe fails with anything but 'not found' (a
\* permission error, a connection error) creates no container and leaves
\* status, should_heal, heal_count, healed_at and last_checked of the record
\* as they were.
C6_ProbeErrorNeverHeals ==
  [][\A item \in items, f \in HealFaults, create \in Outcomes :
       \A probe \in {"forbidden", "transient"} :
         SweepItemStep(item, f, probe, create)
         => LET k == item.project_name IN
            /\ s3' = s3
            /\ k \in DOMAIN tbl'
            /\ \A a \in SweepWritten :
                 /\ Has(tbl'[k], a) = Has(tbl[k], a)
                 /\ Has(tbl[k], a) => tbl'[k][a] = tbl[k][a]
    ]_vars

\* C7: no step of the monitor changes or removes a record's deleted_at,
\* deleted_by or deleted_by_email, and a step after which a record carries
\* deletion metadata it did not carry before is a deletion of that record by
\* the delete path.
C7_SweepKeepsAudit ==
  [][/\ SweepStep
        => \A k \in DOMAIN tbl :
             k \in DOMAIN tbl' /\ Audit(tbl'[k]) = Audit(tbl[k])
     /\ \A k \in DOMAIN tbl' :
          (/\ DOMAIN Audit(tbl'[k]) /= {}
           /\ k \in DOMAIN tbl => Audit(tbl'[k]) /= Audit(tbl[k]))
          => \E user_id \in Actors, project_name \in Projects, f \in DeleteFaults :
               \E match \in MatchChoices(user_id, project_name), out \in Outcomes :
                 LET r == DeleteOf(user_id, project_name, f, match, out) IN
                 /\ DeleteStep(user_id, project_name, f, match, out)
                 /\ r.code = 200
                 /\ r.key = k
    ]_vars

\* C7 witness: a record carrying deletion metadata that a later sweep has
\* written to (restored or healed), the metadata still in place
C7_Witness ==
  \E k \in DOMAIN tbl :
    /\ DOMAIN Audit(tbl[k]) = {"deleted_at", "deleted_by", "deleted_by_email"}
    /\ tbl[k].status = "active"
    /\ tbl[k].last_checked > tbl[k].deleted_at

\* C8: in every step a record's heal_count rises by one if the step is a heal
\* that created the record's container anew, and stays as it is otherwise (so
\* it never decreases and counts the successful recreations).
C8_HealCountCountsRecreations ==
  [][\A k \in DOMAIN tbl :
       /\ k \in DOMAIN tbl'
       /\ tbl'[k].bucket_name = tbl[k].bucket_name
          => HealCount(tbl'[k]) =
               HealCount(tbl[k]) + (IF Recreated(k) THEN 1 ELSE 0)
       /\ HealCount(tbl'[k]) >= HealCount(tbl[k])
            \/ tbl'[k].bucket_name /= tbl[k].bucket_name
    ]_vars

\* the container the create path leaves for a record's stored configuration
DesiredBucket(item) ==
  ConfiguredBucket(item.versioning, item.lifecycle_policy,
                   Get(item, "custom_lifecycle_config", NoConfig), {})

\* C9: after a heal that recreated a record's container, the container's
\* versioning and lifecycle rules are those the create path applies for the
\* record's stored versioning and lifecycle_policy.
C9_HealReappliesConfiguration ==
  [][\A k \in DOMAIN tbl :
       Recreated(k)
       => /\ s3'[tbl[k].bucket_name].versioning = DesiredBucket(tbl[k]).versioning
          /\ s3'[tbl[k].bucket_name].lifecycle = DesiredBucket(tbl[k]).lifecycle
    ]_vars

\* the configuration one invocation leaves on an owned bucket b when its
\* public-access-block call returns iff p and its encryption call iff e
AfterOneInvocation(b, p, e) ==
  [owner |-> "us", pab |-> b.pab \/ p, enc |-> b.enc \/ e,
   versioning |-> b.versioning, lifecycle |-> b.lifecycle]

\* C10: recreate_bucket invoked repeatedly for a bucket the account owns
\* returns True every time, and the bucket is left as one invocation leaves
\* it: the configuration of the first call's bucket with the settings any of
\* the calls applied, nothing else added, reset or removed.
C10_RecreateIdempotent ==
  /\ \A i \in 1..Len(calls) : calls[i].ret = TRUE
  /\ Len(calls) >= 1
     => s3[ProvisionName] =
          AfterOneInvocation(calls[1].before,
                             \E i \in 1..Len(calls) : calls[i].pabOk,
                             \E i \in 1..Len(calls) : calls[i].encOk)
  /\ \A i \in 1..Len(calls) :
       (calls[i].pabOk /\ calls[i].encOk)
       => s3[ProvisionName] = AfterOneInvocation(calls[i].before, TRUE, TRUE)

\* C10 witness: two invocations made, both for the bucket in place, the second
\* one's configuration calls failing after the first one's returned
C10_Witness ==
  /\ Len(calls) >= 2
  /\ calls[1].pabOk /\ calls[1].encOk
  /\ ~calls[2].pabOk /\ ~calls[2].encOk
  /\ ~calls[1].before.pab
  /\ s3[ProvisionName].pab /\ s3[ProvisionName].enc

\* ------------------------------------------ recreate_bucket on any bucket name
\* a bucket name another account holds (bucket names are global)
OtherBucket == [NoBucket EXCEPT !.owner = "other"]

\* the record recreate_bucket is invoked for: never deleted, or deleted by a
\* business-admin and waiting for its heal
RecreateItems ==
  LET item == NewItem(ProvisionKey, ProvisionName, "alice", "alpha", "Enabled",
                      "Auto-Archive", 1)
  IN {item, DeleteUpdate(item, 2, "bob", "bob", TRUE)}

InitRecreate ==
  /\ tbl \in {(ProvisionKey :> item) : item \in RecreateItems}
  /\ s3 \in {(ProvisionName :> b) : b \in OwnedBuckets \cup {NoBucket, OtherBucket}}
  /\ now = 2
  /\ nextUuid = 1
  /\ sweepPc = "idle"
  /\ sweepTs = 0
  /\ items = {}
  /\ processed_buckets = 0
  /\ healed_buckets = 0
  /\ calls = << >>
  /\ finalised = {}

\* one invocation of recreate_bucket, create_bucket answering as the service
\* does for the name's state
Invoke(create, pabOk, encOk, dbOk) ==
  LET r == recreate_bucket(s3, tbl, ProvisionName, ProvisionKey, now + 1,
                           create, pabOk, encOk, dbOk)
  IN
  /\ Len(calls) < MaxCalls
  /\ create \in CreateOutcomes(BucketOf(s3, ProvisionName))
  /\ calls' = Append(calls, [create |-> create, ret |-> r.ret,
                             before |-> s3[ProvisionName],
                             after |-> r.s3[ProvisionName],
                             item_before |-> tbl[ProvisionKey],
                             item_after |-> r.tbl[ProvisionKey]])
  /\ s3' = r.s3
  /\ tbl' = r.tbl
  /\ now' = IF r.tbl /= tbl THEN now + 1 ELSE now
  /\ UNCHANGED << nextUuid, sweepVars, finalised >>

NextRecreate ==
  \E create \in Outcomes, pabOk \in BOOLEAN, encOk \in BOOLEAN, dbOk \in BOOLEAN :
    Invoke(create, pabOk, encOk, dbOk)

SpecRecreate == InitRecreate /\ [][NextRecreate]_vars

\* C11: whenever recreate_bucket reports a heal (it returns True, or it sets
\* the record active with heal_count incremented), the bucket exists and is
\* owned by this account after its create step; a name held by another
\* account is not a successful heal.
C11_HealOnlyOnOwnedBucket ==
  \A i \in 1..Len(calls) :
    (\/ calls[i].ret
     \/ /\ calls[i].item_after.status = "active"
        /\ HealCount(calls[i].item_after) = HealCount(calls[i].item_before) + 1)
    => calls[i].after.owner = "us"

\* ------------------------------------------------- delete-bucket: the request
\* claims.get('sub') of a request that carries no identity claims
NoUser == ""

\* query_params.get('project_name') of a request that names no project
NoProject == ""

\* delete-bucket lambda_handler for any request
delete_lambda_handler(t, s, clock, user_id, project_name, superOk, businessOk, getOk, match, out, dbOk) ==
  IF user_id = NoUser THEN [code |-> 401, tbl |-> t, s3 |-> s, now |-> clock]
  ELSE IF project_name = NoProject
    THEN [code |-> 400, tbl |-> t, s3 |-> s, now |-> clock]
  ELSE DeleteResult(t, s, clock, user_id, project_name, superOk, businessOk,
                    getOk, match, out, dbOk)

\* the actor has no identity, or holds no admin role and owns no record of
\* that project
Unauthorised(user_id, project_name) ==
  \/ user_id = NoUser
  \/ /\ user_id \notin ADMIN_EMAILS
     /\ Groups(user_id) \cap {"admins", "business-admins"} = {}
     /\ << user_id, project_name >> \notin DOMAIN tbl

\* C12: a delete request with no identity claims is answered 401, and one
\* from an actor who is neither the record's owner nor a business-admin nor a
\* super-admin is answered 403 or 404 (500 when the metadata read fails);
\* whatever the group lookups, the metadata read and S3 do, the request
\* leaves the table and S3 exactly as they were.
C12_UnauthorisedDeleteMutatesNothing ==
  \A user_id \in Actors \cup {NoUser}, project_name \in Projects :
    Unauthorised(user_id, project_name)
    => \A f \in DeleteFaults, match \in DOMAIN tbl \cup {<< "", "" >>},
          out \in Outcomes :
         LET r == delete_lambda_handler(tbl, s3, now, user_id, project_name,
                                        f.superOk, f.businessOk, f.getOk,
                                        match, out, f.dbOk)
         IN /\ r.code = IF user_id = NoUser THEN 401
                        ELSE IF f.getOk THEN 404 ELSE 500
            /\ r.tbl = tbl
            /\ r.s3 = s3

\* C12 witness: another user's record is active with its bucket in place, and
\* the delete request of an actor with no role and no record of that project
\* is answered 404
C12_Witness ==
  \E k \in DOMAIN tbl :
    /\ tbl[k].status = "active"
    /\ Present(s3, tbl[k].bucket_name)
    /\ Unauthorised("alice", tbl[k].display_name)
    /\ delete_lambda_handler(tbl, s3, now, "alice", tbl[k].display_name, TRUE,
                             TRUE, TRUE, k, "ok", TRUE).code = 404

\* ------------------------------------------------- create-bucket: the claims
CreateStep(user_id, project_name, c, f) ==
  Create(user_id, project_name, c.versioning, c.lifecycle_policy, c.custom,
         f.getOk, f.createOk, f.failed, f.putOk, f.updOk, f.cleanupOk)

CreateOf(user_id, project_name, c, f) ==
  CreateResult(tbl, s3, now, nextUuid, user_id, project_name, c.versioning,
               c.lifecycle_policy, c.custom, f.getOk, f.createOk, f.failed,
               f.putOk, f.updOk, f.cleanupOk)

\* C13: a create request for a key that already has a record, active or
\* deleted, is answered 409 and changes nothing: no bucket is created and the
\* record stays as it is.
C13_DuplicateCreateConflicts ==
  [][\A user_id \in Actors, project_name \in Projects, c \in CreateConfigs,
        f \in CreateFaults :
       (<< user_id, project_name >> \in DOMAIN tbl
          /\ CreateStep(user_id, project_name, c, f))
       => /\ CreateOf(user_id, project_name, c, f).code = 409
          /\ tbl' = tbl
          /\ s3' = s3
    ]_vars

\* the create faults, each with create_bucket raising as well
CreateBucketFailures == {[f EXCEPT !.createOk = FALSE] : f \in CreateFaults}

\* C14: in every state, a create request whose create_bucket raises is
\* answered with an error and leaves the table (and S3) as they were, so no
\* record is persisted for its key; and an invocation of recreate_bucket
\* whose create_bucket raises an error other than 'already exists' returns
\* False and leaves the record (and S3) as they were, for every record and,
\* in a running sweep, at the sweep's own clock reading.
C14_CreateBucketFailureIsAnError ==
  /\ \A user_id \in Actors, project_name \in Projects, c \in CreateConfigs,
        f \in CreateBucketFailures :
       LET r == CreateOf(user_id, project_name, c, f) IN
       /\ r.code \in {409, 500}
       /\ r.code = 409 => << user_id, project_name >> \in DOMAIN tbl
       /\ r.tbl = tbl
       /\ r.s3 = s3
  /\ \A k \in DOMAIN tbl, f \in HealFaults, dbOk \in BOOLEAN :
       LET r == recreate_bucket(s3, tbl, tbl[k].bucket_name, k,
                                IF sweepPc = "loop" THEN sweepTs ELSE now + 1,
                                "error", f.pabOk, f.encOk, dbOk)
       IN /\ r.ret = FALSE
          /\ r.tbl = tbl
          /\ r.s3 = s3

\* C14 witness: a running sweep has processed a record that is deleted
\* provisionally and whose bucket is missing, without healing it: the record
\* and S3 are as before, and recreate_bucket with create_bucket raising
\* returns False for it
C14_Witness ==
  /\ sweepPc = "loop"
  /\ processed_buckets >= 1
  /\ healed_buckets = 0
  /\ \E k \in DOMAIN tbl :
       /\ DeletedHealable(tbl[k])
       /\ Absent(s3, tbl[k].bucket_name)
       /\ \A item \in items : item.project_name /= k
       /\ ~recreate_bucket(s3, tbl, tbl[k].bucket_name, k, sweepTs, "error",
                           TRUE, TRUE, TRUE).ret

\* a request with a well-formed custom lifecycle configuration
CustomConfig ==
  [versioning |-> "Enabled", lifecycle_policy |-> "Custom",
   custom |-> [given |-> TRUE, Rules |-> << CustomRule >>]]

\* the ways the metadata write fails: put_item raises, or the update_item
\* that stores custom_lifecycle_config raises; the cleanup returns or raises
PersistFailures ==
  {[NoFault EXCEPT !.putOk = FALSE],
   [NoFault EXCEPT !.putOk = FALSE, !.cleanupOk = FALSE],
   [NoFault EXCEPT !.updOk = FALSE],
   [NoFault EXCEPT !.updOk = FALSE, !.cleanupOk = FALSE],
   [NoFault EXCEPT !.putOk = FALSE, !.getOk = FALSE],
   [NoFault EXCEPT !.putOk = FALSE, !.failed = ConfigSteps]}

\* the names of the buckets that exist in s
PresentBuckets(s) == {n \in DOMAIN s : s[n].owner /= "none"}

\* the request got as far as creating its bucket and its metadata write failed
PersistFailed(c, f, r) ==
  /\ "bucket_name" \in DOMAIN r
  /\ \/ ~f.putOk
     \/ NormPolicy(c.lifecycle_policy) = "Custom" /\ c.custom.given /\ ~f.updOk

\* C15: in every state, a create request that created its bucket and whose
\* metadata write then failed is answered 500, and its outcome turns on the
\* cleanup deletion: when that returns, the bucket it created does not exist
\* and S3 holds exactly the buckets it held before; when it raises, the
\* bucket is still there.
C15_CleanupAfterPersistFailure ==
  \A user_id \in Actors, project_name \in Projects,
     c \in CreateConfigs \cup {CustomConfig}, f \in PersistFailures :
    LET r == CreateOf(user_id, project_name, c, f) IN
    PersistFailed(c, f, r)
    => /\ r.code = 500
       /\ f.cleanupOk => /\ Absent(r.s3, r.bucket_name)
                         /\ PresentBuckets(r.s3) = PresentBuckets(s3)
       /\ ~f.cleanupOk => Present(r.s3, r.bucket_name)

\* C15 witness: a create request has consumed a bucket name, its metadata
\* write failed and its cleanup returned: no record, no bucket
C15_Witness ==
  /\ tbl = << >>
  /\ nextUuid = 1
  /\ DOMAIN s3 = {[project |-> "alpha", uuid |-> 1]}
  /\ PresentBuckets(s3) = {}
  /\ \E f \in PersistFailures :
       f.cleanupOk /\ PersistFailed(CustomConfig, f,
                                    CreateOf("alice", "alpha", CustomConfig, f))

\* ----------------------------------------- create-bucket: the request body
\* the shortest and the longest project name create accepts
MinNameLen == 3
MaxNameLen == 50

\* the most runs a project name of a request is made of
MaxRuns == 3

\* a text is a sequence of runs, each a count of one kind of character:
\* "a" a lowercase letter, "7" a digit, "-" the hyphen, "A" an uppercase
\* letter, "_" any other printable character, " " whitespace
Chars == {"a", "7", "-", "A", "_", " "}

RunLens == {1, 2, MaxNameLen - 2}

Run(ch, n) == [ch |-> ch, n |-> n]

\* one text has one representation: adjacent runs of a character are merged
RECURSIVE Canon(_)
Canon(text) ==
  IF Len(text) <= 1 THEN text
  ELSE LET rest == Canon(Tail(text)) IN
       IF Head(text).ch = Head(rest).ch
         THEN << Run(Head(text).ch, Head(text).n + Head(rest).n) >> \o Tail(rest)
         ELSE << Head(text) >> \o rest

RECURSIVE len(_)
len(text) == IF text = << >> THEN 0 ELSE Head(text).n + len(Tail(text))

\* str.strip(): leading and trailing whitespace removed
strip(text) ==
  LET a == IF text /= << >> /\ Head(text).ch = " " THEN Tail(text) ELSE text
  IN IF a /= << >> /\ a[Len(a)].ch = " " THEN SubSeq(a, 1, Len(a) - 1) ELSE a

\* str.lower(): uppercase letters become lowercase letters
lower(text) ==
  Canon([i \in DOMAIN text |->
           Run(IF text[i].ch = "A" THEN "a" ELSE text[i].ch, text[i].n)])

\* re.match(r'^[a-z0-9-]+$', text)
re_match(text) ==
  text /= << >> /\ \A i \in DOMAIN text : text[i].ch \in {"a", "7", "-"}

\* a variant without the comparison of the name with its lowercase form
validate_project_name_caseless(project_name_raw) ==
  IF ~re_match(lower(project_name_raw)) THEN "characters"
  ELSE IF len(lower(project_name_raw)) < MinNameLen
          \/ len(lower(project_name_raw)) > MaxNameLen THEN "length"
  ELSE "ok"

\* the three checks create makes on the stripped project name
validate_project_name(project_name_raw) ==
  IF ~re_match(lower(project_name_raw)) THEN "characters"
  ELSE IF project_name_raw /= lower(project_name_raw) THEN "uppercase"
  ELSE IF len(lower(project_name_raw)) < MinNameLen
          \/ len(lower(project_name_raw)) > MaxNameLen THEN "length"
  ELSE "ok"

\* `not custom_lifecycle_config`: the field is absent or an empty dict
Falsy(config) == DOMAIN config = {}

\* a rule S3 accepts
WellFormed(rule) ==
  /\ {"ID", "Status"} \subseteq DOMAIN rule
  /\ rule.Status \in {"Enabled", "Disabled"}

\* a variant reporting the first failed configuration step only
config_errors_first(raised) ==
  LET all == SelectSeq(<< "pab", "enc", "versioning", "lifecycle" >>,
                       LAMBDA step : step \in raised)
  IN SubSeq(all, 1, IF all = << >> THEN 0 ELSE 1)

\* config_errors: one entry for each configuration step that raised, in the
\* order the steps are made
config_errors(raised) ==
  SelectSeq(<< "pab", "enc", "versioning", "lifecycle" >>,
            LAMBDA step : step \in raised)

\* create-bucket lambda_handler: the response to a request of user_id with
\* the given body, and the table, S3 and counters it leaves.  f: the service
\* faults of the invocation, f.failed the configuration calls that raise
\* when they are made.
create_lambda_handler(t, s, clock, uuid, user_id, body, f) ==
  LET unchanged == [tbl |-> t, s3 |-> s, now |-> clock, nextUuid |-> uuid]
      versioning == NormVersioning(Get(body, "versioning", "Enabled"))
      lifecycle_policy == NormPolicy(Get(body, "lifecycle_policy", "None"))
      config == Get(body, "custom_lifecycle_config", << >>)
      project_name_raw == strip(body.project_name)
      project_name == lower(project_name_raw)
      valueError == lifecycle_policy = "Custom" /\ "Rules" \notin DOMAIN config
      custom == [given |-> ~Falsy(config),
                 Rules |-> IF "Rules" \in DOMAIN config
                           THEN config.Rules ELSE << >>]
      lifecycle_config == LifecycleConfig(lifecycle_policy, custom)
      putCalled == /\ lifecycle_policy /= "None"
                   /\ ~valueError
                   /\ lifecycle_config.Rules /= << >>
      putRaises == \/ "lifecycle" \in f.failed
                   \/ \E i \in DOMAIN lifecycle_config.Rules :
                        ~WellFormed(lifecycle_config.Rules[i])
      raised == {step \in ConfigSteps :
                   CASE step = "versioning" ->
                          versioning = "Enabled" /\ step \in f.failed
                     [] step = "lifecycle" ->
                          valueError \/ (putCalled /\ putRaises)
                     [] OTHER -> step \in f.failed}
      r == CreateResult(t, s, clock, uuid, user_id, project_name, versioning,
                        lifecycle_policy, custom, f.getOk, f.createOk, raised,
                        f.putOk, f.updOk, f.cleanupOk)
  IN
  IF user_id = NoUser THEN [code |-> 401] @@ unchanged
  ELSE IF "project_name" \notin DOMAIN body THEN [code |-> 400] @@ unchanged
  ELSE IF lifecycle_policy = "Custom" /\ Falsy(config)
    THEN [code |-> 400] @@ unchanged
  ELSE IF validate_project_name(project_name_raw) /= "ok"
    THEN [code |-> 400] @@ unchanged
  ELSE IF r.code /= 200 THEN r
  ELSE IF config_errors(raised) /= << >>
    THEN [project_name |-> project_name,
          warnings |-> config_errors(raised)] @@ r
  ELSE [project_name |-> project_name] @@ r

\* ------------------------------------------------------------- list-buckets
\* a variant that looks a named project up by its display name for everyone
list_lambda_handler_by_display_name(t, user_id, project_name, lookupOk, match) ==
  IF user_id = NoUser THEN [code |-> 401]
  ELSE IF project_name /= << >> THEN
    IF match \in ScanByDisplayName(t, project_name)
      THEN [code |-> 200, item |-> RemoveAttrs(t[match], {"user_id"})]
      ELSE [code |-> 404]
  ELSE
    [code |-> 200,
     items |-> {RemoveAttrs(t[k], {"user_id"}) :
                k \in {x \in DOMAIN t : Get(t[x], "user_id", "") = user_id}}]

\* list-buckets lambda_handler: a request of user_id, for the project named
\* project_name or, the name being empty, for every project the caller may
\* see.  lookupOk: whether the group lookups return; match: the first item
\* of an admin's scan filtered on display_name.
list_lambda_handler(t, user_id, project_name, lookupOk, match) ==
  LET groups == get_user_groups(user_id, lookupOk)
      is_super_admin_user == "admins" \in groups
      is_business_admin_user == "business-admins" \in groups
      is_admin_user == is_super_admin_user \/ is_business_admin_user
      own == << user_id, project_name >>
      Renamed(item) ==
        IF Has(item, "user_id")
          THEN SetAttrs(RemoveAttrs(item, {"user_id"}),
                        [owner_user_id |-> item.user_id])
          ELSE item
  IN
  IF user_id = NoUser THEN [code |-> 401]
  ELSE IF project_name /= << >> THEN
    IF is_admin_user THEN
      IF match \in ScanByDisplayName(t, project_name)
        THEN [code |-> 200,
              item |-> SetAttrs(RemoveAttrs(t[match], {"user_id"}),
                                [owner_user_id |-> Get(t[match], "user_id", "")])]
        ELSE [code |-> 404]
    ELSE IF own \in DOMAIN t
      THEN [code |-> 200, item |-> RemoveAttrs(t[own], {"user_id"})]
      ELSE [code |-> 404]
  ELSE IF is_admin_user THEN
    [code |-> 200,
     items |-> {SetAttrs(Renamed(t[k]),
                         [user_role |-> IF is_super_admin_user
                                          THEN "super_admin"
                                          ELSE "business_admin"]) :
                k \in DOMAIN t}]
  ELSE
    [code |-> 200,
     items |-> {RemoveAttrs(t[k], {"user_id"}) :
                k \in {x \in DOMAIN t : Get(t[x], "user_id", "") = user_id}}]

\* ------------------------------------- create then list, request by request
\* the project names of the requests
Names ==
  {Canon(text) : text \in UNION {[1..n -> {Run(ch, k) : ch \in Chars, k \in RunLens}] : n \in 0..MaxRuns}}

\* a name create accepts
GoodName == << Run("a", 2), Run("-", 1), Run("7", 1) >>

MalformedRule == [Status |-> "Invalid"]

\* the custom_lifecycle_config values of the requests: an empty dict, a dict
\* with no Rules, with no rule, with a malformed rule, with a rule
CustomConfigs ==
  {<< >>, [Invalid |-> "config"], [Rules |-> << >>],
   [Rules |-> << MalformedRule >>], [Rules |-> << CustomRule >>]}

\* a field left out, or given with one of the values
Opt(field, values) == {<< >>} \cup {(field :> v) : v \in values}

\* the request bodies: one with no project_name, every name with the other
\* fields left out, and the accepted name with every combination of the
\* other fields
CreateBodies ==
  LET others == {v @@ l @@ c :
                   v \in Opt("versioning", {"Enabled", "Disabled", "Suspended"}),
                   l \in Opt("lifecycle_policy",
                             {"None", "Auto-Archive", "Auto-Delete", "Custom",
                              "Weekly"}),
                   c \in Opt("custom_lifecycle_config", CustomConfigs)}
  IN {[versioning |-> "Enabled"]}
       \cup {[project_name |-> n] : n \in Names}
       \cup {[project_name |-> GoodName] @@ b : b \in others}

\* the faults of a create request: any subset of the configuration calls
\* raising, or one of the other calls raising
CreateRequestFaults ==
  {[NoFault EXCEPT !.failed = failed] : failed \in SUBSET ConfigSteps}
    \cup CreateFaults \cup PersistFailures

\* the table before the request: empty, or holding the record of bob's
\* project of the accepted name
InitCreate ==
  /\ tbl \in {<< >>,
              (<< "bob", GoodName >> :>
                 NewItem(<< "bob", GoodName >>, [project |-> GoodName, uuid |-> 1],
                         "bob", GoodName, "Disabled", "None", 1))}
  /\ s3 = IF tbl = << >> THEN << >>
          ELSE ([project |-> GoodName, uuid |-> 1] :>
                  ConfiguredBucket("Disabled", "None", NoCustom, {}))
  /\ now = 1
  /\ nextUuid = 1
  /\ sweepPc = "idle"
  /\ sweepTs = 0
  /\ items = {}
  /\ processed_buckets = 0
  /\ healed_buckets = 0
  /\ calls = << >>
  /\ finalised = {}

\* the create request of a behaviour
CreateRequest(user_id, body, f) ==
  LET r == create_lambda_handler(tbl, s3, now, nextUuid, user_id, body, f) IN
  /\ calls = << >>
  /\ calls' = << [op |-> "create", user_id |-> user_id, body |-> body,
                  f |-> f, tbl |-> tbl, s3 |-> s3,
                  resp |-> RemoveAttrs(r, {"tbl", "s3", "now", "nextUuid"})] >>
  /\ tbl' = r.tbl
  /\ s3' = r.s3
  /\ now' = r.now
  /\ nextUuid' = r.nextUuid
  /\ UNCHANGED << sweepVars, finalised >>

\* a list request that follows it
ListRequest(user_id, project_name, lookupOk, match) ==
  /\ calls /= << >>
  /\ Len(calls) < MaxCalls
  /\ calls' = Append(calls,
                     [op |-> "list", user_id |-> user_id,
                      project_name |-> project_name,
                      resp |-> list_lambda_handler(tbl, user_id, project_name,
                                                   lookupOk, match)])
  /\ UNCHANGED << tbl, s3, now, nextUuid, sweepVars, finalised >>

\* the create requests: every name without a fault, an unauthenticated
\* request, and every other body of alice and of bob under every fault
CreateRequests ==
  LET named == {b \in CreateBodies : DOMAIN b = {"project_name"}} IN
  {[user_id |-> "alice", body |-> b, f |-> NoFault] : b \in named}
    \cup {[user_id |-> NoUser, body |-> [project_name |-> n], f |-> NoFault] :
            n \in {GoodName, << >>}}
    \cup {[user_id |-> u, body |-> b, f |-> f] :
            u \in {"alice", "bob"}, b \in CreateBodies \ named,
            f \in CreateRequestFaults}

DoCreateRequest ==
  /\ calls = << >>
  /\ \E q \in CreateRequests : CreateRequest(q.user_id, q.body, q.f)

\* the list requests: of the user who created, for everything or for the
\* name create answered with
DoListRequest ==
  /\ calls /= << >>
  /\ \E user_id \in {calls[1].user_id}, lookupOk \in BOOLEAN :
       \E project_name \in {<< >>, Get(calls[1].resp, "project_name", GoodName)} :
         \E match \in ScanByDisplayName(tbl, project_name) \cup {<< user_id, project_name >>} :
           ListRequest(user_id, project_name, lookupOk, match)

NextCreate == DoCreateRequest \/ DoListRequest

SpecCreate == InitCreate /\ [][NextCreate]_vars

\* --------------------------------------------- claims on the create request
\* the create request of the behaviour has been made by an authenticated user
Created == calls /= << >> /\ calls[1].user_id /= NoUser

\* the request changed neither the table nor S3
NoMutation == tbl = calls[1].tbl /\ s3 = calls[1].s3

RequestedPolicy == NormPolicy(Get(calls[1].body, "lifecycle_policy", "None"))

RequestedVersioning == NormVersioning(Get(calls[1].body, "versioning", "Enabled"))

RequestedConfig == Get(calls[1].body, "custom_lifecycle_config", << >>)

Warnings == Get(calls[1].resp, "warnings", << >>)

\* the configuration the request asks for and the bucket create answered
\* with does not have
Unapplied ==
  LET b == s3[calls[1].resp.bucket_name] IN
  {step \in ConfigSteps :
     CASE step = "pab" -> ~b.pab
       [] step = "enc" -> ~b.enc
       [] step = "versioning" ->
            RequestedVersioning = "Enabled" /\ b.versioning /= "Enabled"
       [] step = "lifecycle" ->
            /\ RequestedPolicy /= "None"
            /\ b.lifecycle = << >>
            /\ ~(/\ RequestedPolicy = "Custom"
                 /\ "Rules" \in DOMAIN RequestedConfig
                 /\ RequestedConfig.Rules = << >>)}

\* C16: a create request that passes validation and the duplicate check,
\* whose create_bucket returns and whose metadata writes return, is answered
\* 200 whatever configuration calls raise: the record of its key is active
\* and names the bucket of the answer, that bucket exists, and the warnings
\* of the answer hold exactly one entry for each configuration step that
\* was not applied to the bucket and none for any other step.
C16_ConfigFailuresNeverBlock ==
  (/\ Created
   /\ calls[1].resp.code \notin {400, 409}
   /\ calls[1].f.createOk
   /\ calls[1].f.putOk
   /\ RequestedPolicy = "Custom" => calls[1].f.updOk)
  => LET resp == calls[1].resp
         key == << calls[1].user_id, resp.project_name >>
     IN /\ resp.code = 200
        /\ key \in DOMAIN tbl
        /\ tbl[key].status = "active"
        /\ tbl[key].bucket_name = resp.bucket_name
        /\ Present(s3, resp.bucket_name)
        /\ \A step \in ConfigSteps :
             Cardinality({i \in DOMAIN Warnings : Warnings[i] = step})
               = IF step \in Unapplied THEN 1 ELSE 0

\* C16 witness: a request answered 200 with two of the four steps failed
C16_Witness ==
  /\ Created
  /\ calls[1].resp.code = 200
  /\ calls[1].f.failed = {"enc", "lifecycle"}
  /\ Warnings = << "enc", "lifecycle" >>
  /\ tbl[<< calls[1].user_id, calls[1].resp.project_name >>].status = "active"

\* a character other than a lowercase letter, a digit and the hyphen
BadChars(text) == \E i \in DOMAIN text : text[i].ch \notin {"a", "7", "-"}

\* the name has a character outside the three kinds, or is shorter than 3
\* or longer than 50
MalformedName(text) ==
  \/ BadChars(text)
  \/ len(text) < MinNameLen
  \/ len(text) > MaxNameLen

\* the project name of the request is missing
NameMissing == "project_name" \notin DOMAIN calls[1].body

C18_InvalidCustomConfigRejected ==
  (/\ Created
   /\ calls[1].f = NoFault
   /\ ~NameMissing
   /\ ~MalformedName(strip(calls[1].body.project_name))
   /\ Get(calls[1].body, "lifecycle_policy", "None") = "Custom"
   /\ \/ "Rules" \notin DOMAIN RequestedConfig
      \/ RequestedConfig.Rules = << >>
      \/ \E i \in DOMAIN RequestedConfig.Rules :
           ~WellFormed(RequestedConfig.Rules[i]))
  => calls[1].resp.code = 400 /\ NoMutation

\* the record is the one create answered for, as requested
AsRequested(item) ==
  /\ item.bucket_name = calls[1].resp.bucket_name
  /\ item.versioning = calls[1].body.versioning
  /\ item.lifecycle_policy = calls[1].body.lifecycle_policy

\* C19: after a create request answered 200, made by a user of no admin
\* group with a valid versioning and a valid lifecycle_policy, the list
\* request the same user makes next is answered 200: for the project name of
\* create's answer with the record of the bucket create named, its
\* versioning and lifecycle_policy as requested; for no name with a list
\* that holds that record.
C19_CreateListRoundTrip ==
  (/\ Created
   /\ Len(calls) >= 2
   /\ calls[1].resp.code = 200
   /\ Groups(calls[1].user_id) \cap {"admins", "business-admins"} = {}
   /\ {"versioning", "lifecycle_policy"} \subseteq DOMAIN calls[1].body
   /\ calls[1].body.versioning \in {"Enabled", "Disabled"}
   /\ calls[1].body.lifecycle_policy
        \in {"None", "Auto-Archive", "Auto-Delete", "Custom"}
   /\ calls[2].user_id = calls[1].user_id)
  => /\ calls[2].resp.code = 200
     /\ IF calls[2].project_name = << >>
          THEN \E item \in calls[2].resp.items : AsRequested(item)
          ELSE AsRequested(calls[2].resp.item)

\* C19 witness: alice created a project beside bob's of the same name, with
\* versioning Disabled and policy Auto-Delete, and asked for it by name
C19_Witness ==
  /\ Created
  /\ Len(calls) >= 2
  /\ calls[1].user_id = "alice"
  /\ calls[1].resp.code = 200
  /\ << "bob", calls[1].resp.project_name >> \in DOMAIN tbl
  /\ Get(calls[1].body, "versioning", "") = "Disabled"
  /\ Get(calls[1].body, "lifecycle_policy", "") = "Auto-Delete"
  /\ calls[2].project_name = calls[1].resp.project_name
  /\ calls[2].resp.code = 200
  /\ calls[2].resp.item.versioning = "Disabled"

\* C20: a create request answered 200 with no lifecycle warning leaves on
\* its bucket: for policy Auto-Archive exactly one rule, enabled, moving
\* objects to GLACIER at day 30; for policy Auto-Delete exactly one rule,
\* enabled, expiring noncurrent versions at 90 days; for policy None no
\* lifecycle rule.
C20_LifecycleTranslation ==
  (/\ Created
   /\ calls[1].resp.code = 200
   /\ \A i \in DOMAIN Warnings : Warnings[i] /= "lifecycle")
  => LET rules == s3[calls[1].resp.bucket_name].lifecycle
         policy == Get(calls[1].body, "lifecycle_policy", "None")
     IN /\ policy = "Auto-Archive"
             => /\ Len(rules) = 1
                /\ rules[1].Status = "Enabled"
                /\ rules[1].Action = "Transitions"
                /\ rules[1].StorageClass = "GLACIER"
                /\ rules[1].Days = 30
        /\ policy = "Auto-Delete"
             => /\ Len(rules) = 1
                /\ rules[1].Status = "Enabled"
                /\ rules[1].Action = "NoncurrentVersionExpiration"
                /\ rules[1].Days = 90
        /\ policy = "None" => rules = << >>

\* C20 witness: an Auto-Archive request answered 200 without warnings
C20_Witness ==
  /\ Created
  /\ calls[1].resp.code = 200
  /\ Warnings = << >>
  /\ Get(calls[1].body, "lifecycle_policy", "None") = "Auto-Archive"
  /\ Len(s3[calls[1].resp.bucket_name].lifecycle) = 1

\* ----------------------------------------------- claims on failures, again
\* C22: in every sweep step that calls recreate_bucket for a record and whose
\* heal fails (recreate_bucket returns False, or its update_item raises), the
\* record is left exactly as it was, S3 is left as it was when
\* recreate_bucket returned False, and the record still passes the filter
\* that builds the working set of the next sweep.
C22_FailedHealLeavesRecord ==
  [][\A item \in items \ items', probe \in Outcomes :
       HealDecision(item, ProbeClass(probe, item.bucket_name))
       => \A f \in HealFaults, create \in Outcomes :
            LET k == item.project_name
                r == recreate_bucket(s3, tbl, item.bucket_name, k, sweepTs,
                                     create, f.pabOk, f.encOk, f.dbOk)
            IN \/ r.ret /\ f.dbOk
               \/ /\ tbl' = tbl
                  /\ tbl'[k] = item
                  /\ NeedsMonitoring(tbl'[k])
                  /\ HealDecision(tbl'[k], ProbeClass(probe, item.bucket_name))
                  /\ ~r.ret => s3' = s3 /\ healed_buckets' = healed_buckets
               \/ ~SweepItemStep(item, f, probe, create)
    ]_vars

\* C22 witness: a sweep has gone past a record with no deletion metadata
\* whose bucket is missing, counted no heal, and the record is as it was put
C22_Witness ==
  /\ sweepPc = "loop"
  /\ processed_buckets = 1
  /\ healed_buckets = 0
  /\ \E k \in DOMAIN tbl :
       /\ tbl[k].status = "active"
       /\ DOMAIN Audit(tbl[k]) = {}
       /\ tbl[k].last_checked = tbl[k].created_at
       /\ Absent(s3, tbl[k].bucket_name)
       /\ \A item \in items : item.project_name /= k
       /\ ~recreate_bucket(s3, tbl, tbl[k].bucket_name, k, sweepTs, "error",
                           FALSE, FALSE, FALSE).ret

\* C28: every delete request answered 200 leaves the record it resolved
\* with status deleted, deleted_at the time of the request, deleted_by the
\* caller and should_heal the value of the answer.
C28_DeleteSuccessIsRecorded ==
  [][\A user_id \in Actors, project_name \in Projects, f \in DeleteFaults :
       \A match \in MatchChoices(user_id, project_name), out \in Outcomes :
         LET r == DeleteOf(user_id, project_name, f, match, out) IN
         (DeleteStep(user_id, project_name, f, match, out) /\ r.code = 200)
         => /\ Get(tbl'[r.key], "status", "active") = "deleted"
            /\ Get(tbl'[r.key], "deleted_at", 0) = now + 1
            /\ Get(tbl'[r.key], "deleted_by", "") = user_id
            /\ Get(tbl'[r.key], "should_heal", ~r.should_heal) = r.should_heal
    ]_vars

\* C30: a create request answered with an error leaves no record under a
\* key that held none before the request.
C30_FailedCreateLeavesNoRecord ==
  (Created /\ calls[1].resp.code /= 200)
  => DOMAIN tbl \subseteq DOMAIN calls[1].tbl

\* ------------------------------------- a sweep over a table it did not write
\* a record with no bucket_name, as a writer other than the four handlers
\* can leave it
MalformedItem(key) == [project_name |-> key, status |-> "active"]

\* the loop body up to the first statement that can fail: item['bucket_name']
\* raises KeyError outside the per-record try, the handler's outer except
\* returns 500 and the rest of items_to_monitor is dropped
SweepAbort(item) ==
  /\ sweepPc = "loop"
  /\ item \in items
  /\ ~Has(item, "bucket_name")
  /\ sweepPc' = "idle"
  /\ sweepTs' = 0
  /\ items' = {}
  /\ processed_buckets' = 0
  /\ healed_buckets' = 0
  /\ UNCHANGED << tbl, s3, now, nextUuid, calls, finalised >>

\* the table of alice's and bob's records, with or without a malformed
\* record under carol's key, each bucket there or missing
InitSweep ==
  /\ \E heal \in BOOLEAN, malformed \in BOOLEAN :
       tbl = (<< "alice", "alpha" >> :>
                NewItem(<< "alice", "alpha" >>, [project |-> "alpha", uuid |-> 1],
                        "alice", "alpha", "Enabled", "Auto-Archive", 1))
             @@ (<< "bob", "alpha" >> :>
                   DeleteUpdate(NewItem(<< "bob", "alpha" >>,
                                        [project |-> "alpha", uuid |-> 2],
                                        "bob", "alpha", "Enabled", "None", 1),
                                2, "erin", "erin", heal))
             @@ (IF malformed
                   THEN (<< "carol", "alpha" >> :>
                           MalformedItem(<< "carol", "alpha" >>))
                   ELSE << >>)
  /\ s3 \in [{[project |-> "alpha", uuid |-> 1], [project |-> "alpha", uuid |-> 2]}
               -> {NoBucket, ConfiguredBucket("Enabled", "None", NoCustom, {})}]
  /\ now = 2
  /\ nextUuid = 2
  /\ sweepPc = "idle"
  /\ sweepTs = 0
  /\ items = {}
  /\ processed_buckets = 0
  /\ healed_buckets = 0
  /\ calls = << >>
  /\ finalised = {}

DoSweepItemOfName ==
  \E item \in {i \in items : Has(i, "bucket_name")}, f \in HealFaults :
    \E probe \in Outcomes, create \in Outcomes :
      SweepItem(item, probe, create, f.pabOk, f.encOk, f.dbOk)

DoSweepAbort == \E item \in items : SweepAbort(item)

NextSweep ==
  \/ DoSweepScan
  \/ DoSweepItemOfName
  \/ DoSweepAbort
  \/ SweepReturn

SpecSweep == InitSweep /\ [][NextSweep]_vars

MaxHeals == 2

HealKeys == {<< "alice", "alpha" >>, << "bob", "alpha" >>}

\* alice's record provisionally deleted by the business admin bob and its
\* bucket gone; bob's own record active, its bucket there or missing
InitHeal ==
  /\ tbl = (<< "alice", "alpha" >> :>
              DeleteUpdate(NewItem(<< "alice", "alpha" >>,
                                   [project |-> "alpha", uuid |-> 1],
                                   "alice", "alpha", "Enabled", "Auto-Archive", 1),
                           2, "bob", "bob", TRUE))
           @@ (<< "bob", "alpha" >> :>
                 NewItem(<< "bob", "alpha" >>, [project |-> "alpha", uuid |-> 2],
                         "bob", "alpha", "Enabled", "None", 1))
  /\ \E b \in {NoBucket, ConfiguredBucket("Enabled", "None", NoCustom, {})} :
       s3 = ([project |-> "alpha", uuid |-> 1] :> NoBucket)
            @@ ([project |-> "alpha", uuid |-> 2] :> b)
  /\ now = 2
  /\ nextUuid = 2
  /\ sweepPc = "idle"
  /\ sweepTs = 0
  /\ items = {}
  /\ processed_buckets = 0
  /\ healed_buckets = 0
  /\ calls = << >>
  /\ finalised = {}

\* lambda_handler up to the loop, invoked by the schedule for as long as the
\* system runs: the clock readings past MaxClock are told apart no further
ScheduledScan ==
  LET monitored == {tbl[k] : k \in {j \in DOMAIN tbl : NeedsMonitoring(tbl[j])}} IN
  /\ sweepPc = "idle"
  /\ monitored /= {}
  /\ sweepPc' = "loop"
  /\ sweepTs' = IF now < MaxClock THEN now + 1 ELSE MaxClock
  /\ items' = monitored
  /\ processed_buckets' = 0
  /\ healed_buckets' = 0
  /\ UNCHANGED << tbl, s3, now, nextUuid, calls, finalised >>

\* one iteration of the loop; a heal of a bucket that is there (a connection
\* error whose text holds "404") is taken MaxHeals times at most
ScheduledItem ==
  \E item \in items, f \in HealFaults, probe \in Outcomes, create \in Outcomes :
    /\ ProbeClass(probe, item.bucket_name) = "missing_by_text"
         => HealCount(ItemOf(tbl, item.project_name)) < MaxHeals
    /\ SweepItem(item, probe, create, f.pabOk, f.encOk, f.dbOk)

\* an iteration on the record of key k in which S3 and DynamoDB answer
\* truthfully and without error
FaultFreeItem(k) ==
  \E item \in items, probe \in {"ok", "notfound"}, create \in {"created", "ok"} :
    /\ item.project_name = k
    /\ SweepItem(item, probe, create, TRUE, TRUE, TRUE)

\* a bucket of a record removed outside the system
ScheduledExternalDelete ==
  \E k \in DOMAIN tbl :
    /\ HealCount(tbl[k]) < MaxHeals
    /\ ExternalDelete(tbl[k].bucket_name)

NextHeal ==
  \/ ScheduledScan
  \/ ScheduledItem
  \/ SweepReturn
  \/ ScheduledExternalDelete

\* the schedule keeps invoking the handler and an invocation runs to its
\* return (weak fairness); for each record, the services do not fail on it
\* for ever (strong fairness of the fault-free iteration)
SpecHeal ==
  /\ InitHeal
  /\ [][NextHeal]_vars
  /\ WF_vars(ScheduledScan)
  /\ WF_vars(ScheduledItem)
  /\ WF_vars(SweepReturn)
  /\ \A k \in HealKeys : SF_vars(FaultFreeItem(k))

\* C23: under fair repeated sweeps and provisioning that eventually succeeds,
\* whenever a record is active and its bucket is missing, the bucket
\* eventually exists again, whether or not the record carries the metadata of
\* an earlier, healed deletion.
C23_ActiveMissingIsHealed ==
  \A k \in HealKeys :
    (tbl[k].status = "active" /\ Absent(s3, tbl[k].bucket_name))
      ~> Present(s3, tbl[k].bucket_name)

\* C24: under fair repeated sweeps and provisioning that eventually succeeds,
\* a record that is deleted with should_heal true and whose bucket is missing
\* eventually is active, with its bucket present and should_heal cleared.
C24_HealableIsHealed ==
  \A k \in HealKeys :
    (DeletedHealable(tbl[k]) /\ Absent(s3, tbl[k].bucket_name))
      ~> (/\ tbl[k].status = "active"
          /\ Present(s3, tbl[k].bucket_name)
          /\ ~Has(tbl[k], "should_heal"))

\* alice's provisionally deleted record has been healed after a sweep in
\* which the heal failed: the sweep of clock reading 3 left no mark
C24_Witness ==
  LET item == tbl[<< "alice", "alpha" >>] IN
  /\ item.status = "active"
  /\ Has(item, "deleted_at")
  /\ ~Has(item, "should_heal")
  /\ HealCount(item) = 1
  /\ item.healed_at = 4
  /\ item.last_checked = 4
  /\ Present(s3, item.bucket_name)

\* ------------------------------------ two sweeps and a delete request at once
\* Each invocation runs in its own Lambda instance and shares only the table
\* and S3 with the others, so its calls to them interleave with theirs. The
\* frames of the three invocations are calls[1], calls[2] (monitor-buckets)
\* and calls[3] (delete-bucket): pc is the next call the invocation makes,
\* the other fields are its locals.
RaceKey == << "alice", "alpha" >>

RaceName == [project |-> "alpha", uuid |-> 1]

Sweepers == {1, 2}

Deleter == 3

\* a monitor invocation before its scan: item is the scanned item it works
\* on, published the sns.publish calls it has made, updates the update_item
\* calls of its that returned
SweepFrame ==
  [pc |-> "scan", item |-> [project_name |-> RaceKey], published |-> 0,
   updates |-> 0]

\* a delete invocation before its first call
DeleteFrame ==
  [pc |-> "remove", user_id |-> "", key |-> RaceKey, should_heal |-> FALSE,
   out |-> "", code |-> 0, updates |-> 0]

\* alice's record, active or provisionally deleted by bob, its bucket there
\* or missing; no invocation has started
InitRace ==
  /\ \E item \in {NewItem(RaceKey, RaceName, "alice", "alpha", "Enabled",
                          "Auto-Archive", 1),
                  DeleteUpdate(NewItem(RaceKey, RaceName, "alice", "alpha",
                                       "Enabled", "Auto-Archive", 1),
                               2, "bob", "bob", TRUE)} :
       tbl = (RaceKey :> item)
  /\ \E b \in {NoBucket, ConfiguredBucket("Enabled", "Auto-Archive", NoCustom, {})} :
       s3 = (RaceName :> b)
  /\ now = 2
  /\ nextUuid = 1
  /\ sweepPc = "idle"
  /\ sweepTs = 0
  /\ items = {}
  /\ processed_buckets = 0
  /\ healed_buckets = 0
  /\ calls = << SweepFrame, SweepFrame, DeleteFrame >>
  /\ finalised = {}

\* monitor w: table.scan and the filter; the early return on an empty list
RaceScan(w) ==
  /\ calls[w].pc = "scan"
  /\ calls' = [calls EXCEPT ![w] =
                 IF NeedsMonitoring(tbl[RaceKey])
                   THEN [@ EXCEPT !.pc = "probe", !.item = tbl[RaceKey]]
                   ELSE [@ EXCEPT !.pc = "done"]]
  /\ UNCHANGED << tbl, s3, now, nextUuid, sweepVars, finalised >>

\* monitor w: head_bucket and the branch its answer selects for the item
RaceProbe(w, probe) ==
  LET item == calls[w].item
      class == ProbeClass(probe, item.bucket_name)
  IN
  /\ calls[w].pc = "probe"
  /\ probe \in ProbeOutcomes(BucketOf(s3, item.bucket_name))
  /\ calls' = [calls EXCEPT ![w].pc =
                 IF class = "exists" THEN "refresh"
                 ELSE IF HealDecision(item, class) THEN "create"
                 ELSE "done"]
  /\ UNCHANGED << tbl, s3, now, nextUuid, sweepVars, finalised >>

\* monitor w: the update_item of the 'bucket exists' branch
RaceRefresh(w, dbOk) ==
  /\ calls[w].pc = "refresh"
  /\ tbl' = ExistsUpdate(tbl, calls[w].item, now + 1, dbOk)
  /\ now' = IF dbOk THEN now + 1 ELSE now
  /\ calls' = [calls EXCEPT ![w].pc = "done",
                            ![w].updates = IF dbOk THEN @ + 1 ELSE @]
  /\ finalised' = Finalised(finalised, tbl')
  /\ UNCHANGED << s3, nextUuid, sweepVars >>

\* monitor w: the S3 calls of recreate_bucket
RaceCreate(w, create, pabOk, encOk) ==
  LET item == calls[w].item
      r == recreate_bucket(s3, tbl, item.bucket_name, item.project_name, now,
                           create, pabOk, encOk, FALSE)
  IN
  /\ calls[w].pc = "create"
  /\ create \in CreateOutcomes(BucketOf(s3, item.bucket_name))
  /\ s3' = r.s3
  /\ calls' = [calls EXCEPT ![w].pc = IF r.ret THEN "update" ELSE "done"]
  /\ UNCHANGED << tbl, now, nextUuid, sweepVars, finalised >>

\* monitor w: the update_item of recreate_bucket, then sns.publish
RaceUpdate(w, dbOk) ==
  LET project_name == calls[w].item.project_name IN
  /\ calls[w].pc = "update"
  /\ tbl' = IF dbOk
              THEN PutItem(tbl, project_name,
                           HealUpdate(ItemOf(tbl, project_name), now + 1))
              ELSE tbl
  /\ now' = IF dbOk THEN now + 1 ELSE now
  /\ calls' = [calls EXCEPT ![w].pc = "done",
                            ![w].published = @ + 1,
                            ![w].updates = IF dbOk THEN @ + 1 ELSE @]
  /\ finalised' = Finalised(finalised, tbl')
  /\ UNCHANGED << s3, nextUuid, sweepVars >>

\* delete: authorisation, the metadata read, the should_heal decision and
\* the removal of the bucket from S3, which answered `out`
RaceDeleteRemove(user_id, match, out) ==
  LET r == DeleteResult(tbl, s3, now, user_id, "alpha", TRUE, TRUE, TRUE,
                        match, out, FALSE)
  IN
  /\ calls[Deleter].pc = "remove"
  /\ out \in DeleteChoices(tbl, s3, RaceKey)
  /\ s3' = r.s3
  /\ calls' = [calls EXCEPT ![Deleter] =
                 IF r.code = 200
                   THEN [@ EXCEPT !.pc = "write", !.user_id = user_id,
                                  !.key = r.key, !.out = out,
                                  !.should_heal = r.should_heal]
                   ELSE [@ EXCEPT !.pc = "done", !.user_id = user_id,
                                  !.out = out, !.code = r.code]]
  /\ UNCHANGED << tbl, now, nextUuid, sweepVars, finalised >>

\* delete: the update_item that records the deletion, and the 200
RaceDeleteWrite(dbOk) ==
  LET d == calls[Deleter] IN
  /\ d.pc = "write"
  /\ tbl' = IF dbOk
              THEN PutItem(tbl, d.key,
                           DeleteUpdate(ItemOf(tbl, d.key), now + 1, d.user_id,
                                        d.user_id, d.should_heal))
              ELSE tbl
  /\ now' = IF dbOk THEN now + 1 ELSE now
  /\ calls' = [calls EXCEPT ![Deleter].pc = "done", ![Deleter].code = 200,
                            ![Deleter].updates = IF dbOk THEN 1 ELSE 0]
  /\ finalised' = Finalised(finalised, tbl')
  /\ UNCHANGED << s3, nextUuid, sweepVars >>

DoRaceScan == \E w \in Sweepers : RaceScan(w)

DoRaceProbe == \E w \in Sweepers, probe \in Outcomes : RaceProbe(w, probe)

DoRaceRefresh == \E w \in Sweepers, dbOk \in BOOLEAN : RaceRefresh(w, dbOk)

DoRaceCreate ==
  \E w \in Sweepers, create \in Outcomes, f \in HealFaults :
    RaceCreate(w, create, f.pabOk, f.encOk)

DoRaceUpdate == \E w \in Sweepers, dbOk \in BOOLEAN : RaceUpdate(w, dbOk)

DoRaceDeleteRemove ==
  \E user_id \in Actors, out \in Outcomes :
    \E match \in MatchChoices(user_id, "alpha") :
      RaceDeleteRemove(user_id, match, out)

DoRaceDeleteWrite == \E dbOk \in BOOLEAN : RaceDeleteWrite(dbOk)

NextRace ==
  \/ DoRaceScan
  \/ DoRaceProbe
  \/ DoRaceRefresh
  \/ DoRaceCreate
  \/ DoRaceUpdate
  \/ DoRaceDeleteRemove
  \/ DoRaceDeleteWrite

SpecRace == InitRace /\ [][NextRace]_vars

\* C25: when both sweeps have healed the record, whose bucket was missing
\* once and which no delete request touched, its heal_count has risen by one,
\* one notification has been published and one sweep has updated the record.
C25_ConcurrentHealsCountOnce ==
  (/\ calls[1].pc = "done" /\ calls[2].pc = "done"
   /\ calls[Deleter].pc = "remove"
   /\ calls[1].published = 1 /\ calls[2].published = 1
   /\ calls[1].updates + calls[2].updates >= 1)
  => /\ HealCount(tbl[RaceKey]) = 1
     /\ calls[1].published + calls[2].published = 1
     /\ calls[1].updates + calls[2].updates = 1

\* C26: a sweep that read the record before a delete request recorded its
\* deletion, and writes after it, leaves the record deleted with the
\* should_heal the delete request computed.
C26_SweepKeepsConcurrentDeletion ==
  [][\A w \in Sweepers :
       (/\ calls[Deleter].pc = "done" /\ calls[Deleter].updates = 1
        /\ calls[w].pc \in {"refresh", "update"} /\ calls'[w].pc = "done"
        /\ Get(calls[w].item, "deleted_at", 0) /= tbl[RaceKey].deleted_at)
       => /\ tbl'[RaceKey].status = "deleted"
          /\ tbl'[RaceKey].should_heal = calls[Deleter].should_heal
    ]_vars

\* C27: once a delete request whose deletion is final (the owner's or a
\* super admin's) has removed the bucket from S3, no step creates the bucket
\* again, wherever the sweeps stand.
C27_FinalDeletionNeverRecreated ==
  [][(/\ calls[Deleter].pc \in {"write", "done"}
      /\ calls[Deleter].out = "ok"
      /\ ~calls[Deleter].should_heal)
     => ~(Absent(s3, RaceName) /\ Present(s3', RaceName))
    ]_vars

\* ------------------------------------------- two create requests at once
\* Two create-bucket invocations by alice for project alpha, each in its own
\* Lambda instance; calls[c] is the frame of invocation c.
Creators == {1, 2}

\* a create invocation before its first call: bucket_name is the name it
\* generates, code the status it returns, kept whether its cleanup failed
CreateFrame ==
  [pc |-> "check", bucket_name |-> [project |-> "alpha", uuid |-> 0],
   versioning |-> "Enabled", code |-> 0, kept |-> FALSE]

\* an empty table and no bucket; no invocation has started
InitRaceCreate ==
  /\ tbl = << >>
  /\ s3 = << >>
  /\ now = 0
  /\ nextUuid = 0
  /\ sweepPc = "idle"
  /\ sweepTs = 0
  /\ items = {}
  /\ processed_buckets = 0
  /\ healed_buckets = 0
  /\ calls = << CreateFrame, CreateFrame >>
  /\ finalised = {}

\* create c: the generated bucket name and the get_item check for the key
RaceCheck(c, versioning, getOk) ==
  /\ calls[c].pc = "check"
  /\ nextUuid < MaxUuid
  /\ nextUuid' = nextUuid + 1
  /\ calls' = [calls EXCEPT ![c] =
                 IF getOk /\ RaceKey \in DOMAIN tbl
                   THEN [@ EXCEPT !.pc = "done", !.code = 409,
                                  !.bucket_name.uuid = nextUuid + 1]
                   ELSE [@ EXCEPT !.pc = "create", !.versioning = versioning,
                                  !.bucket_name.uuid = nextUuid + 1]]
  /\ UNCHANGED << tbl, s3, now, sweepVars, finalised >>

\* create c: create_bucket and the configuration calls
RaceCreateBucket(c, createOk, failed) ==
  /\ calls[c].pc = "create"
  /\ s3' = IF createOk
             THEN (calls[c].bucket_name :>
                     ConfiguredBucket(calls[c].versioning, "None", NoCustom, failed))
                  @@ s3
             ELSE s3
  /\ calls' = [calls EXCEPT ![c] =
                 IF createOk THEN [@ EXCEPT !.pc = "put"]
                 ELSE [@ EXCEPT !.pc = "done", !.code = 500]]
  /\ UNCHANGED << tbl, now, nextUuid, sweepVars, finalised >>

\* create c: put_item, and the cleanup when it raises
RacePut(c, putOk, cleanupOk) ==
  /\ calls[c].pc = "put"
  /\ tbl' = IF putOk
              THEN PutItem(tbl, RaceKey,
                           NewItem(RaceKey, calls[c].bucket_name, "alice", "alpha",
                                   calls[c].versioning, "None", now + 1))
              ELSE tbl
  /\ now' = IF putOk THEN now + 1 ELSE now
  /\ s3' = IF putOk \/ ~cleanupOk THEN s3
           ELSE (calls[c].bucket_name :> NoBucket) @@ s3
  /\ calls' = [calls EXCEPT ![c].pc = "done",
                            ![c].code = IF putOk THEN 200 ELSE 500,
                            ![c].kept = ~putOk /\ ~cleanupOk]
  /\ finalised' = finalised
  /\ UNCHANGED << nextUuid, sweepVars >>

DoRaceCheck ==
  \E c \in Creators, versioning \in {"Enabled", "Disabled"}, getOk \in BOOLEAN :
    RaceCheck(c, versioning, getOk)

DoRaceCreateBucket ==
  \E c \in Creators, createOk \in BOOLEAN, failed \in {{}, {"pab"}} :
    RaceCreateBucket(c, createOk, failed)

DoRacePut ==
  \E c \in Creators, putOk \in BOOLEAN, cleanupOk \in BOOLEAN :
    RacePut(c, putOk, cleanupOk)

NextRaceCreate ==
  \/ DoRaceCheck
  \/ DoRaceCreateBucket
  \/ DoRacePut

SpecRaceCreate == InitRaceCreate /\ [][NextRaceCreate]_vars

\* C29: when two create requests for one key have both returned and no
\* cleanup of theirs failed, at most one returned 200, the key has a record
\* if one did, and every bucket the two created that still exists is the
\* bucket_name of the key's record.
C29_ConcurrentCreatesOneWinner ==
  (/\ \A c \in Creators : calls[c].pc = "done" /\ ~calls[c].kept)
  => /\ Cardinality({c \in Creators : calls[c].code = 200}) <= 1
     /\ (\E c \in Creators : calls[c].code = 200) => RaceKey \in DOMAIN tbl
     /\ \A c \in Creators :
          Present(s3, calls[c].bucket_name)
            => /\ RaceKey \in DOMAIN tbl
               /\ tbl[RaceKey].bucket_name = calls[c].bucket_name

\* ------------------------------------------------- the record's life cycle
\* the fields a deletion writes
Deletion(item) ==
  [a \in {"deleted_at", "deleted_by", "should_heal"} \cap DOMAIN item |-> item[a]]

\* C31: while a record stays deleted, its deleted_at, deleted_by and
\* should_heal do not change: a delete request on a record that is deleted
\* already leaves them as the deletion wrote them.
C31_DeletionWrittenOnce ==
  [][\A k \in DOMAIN tbl :
       (Get(tbl[k], "status", "active") = "deleted"
        /\ Get(tbl'[k], "status", "active") = "deleted")
       => Deletion(tbl'[k]) = Deletion(tbl[k])
    ]_vars

\* C32: no record in the table is active with should_heal true: should_heal
\* true is found on deleted records only.
C32_ActiveNeverHealable ==
  \A k \in DOMAIN tbl :
    Get(tbl[k], "status", "active") = "active" => ~ShouldHealFlag(tbl[k])

\* a provisional deletion has been healed: the record is active again, keeps
\* its deletion metadata and has lost should_heal
C32_Witness ==
  \E k \in DOMAIN tbl :
    /\ tbl[k].status = "active"
    /\ Has(tbl[k], "deleted_at")
    /\ HealCount(tbl[k]) = 1
    /\ ~Has(tbl[k], "should_heal")

\* the step is made by create-bucket: it alone draws a bucket name
CreateMade == nextUuid' /= nextUuid

\* the step is made by the monitor's loop
SweepMade == sweepPc = "loop" /\ ~CreateMade

\* the step is made by delete-bucket
DeleteMade == sweepPc = "idle" /\ ~CreateMade

\* C33: a record goes from active to deleted in steps of the delete path
\* only and from deleted to active in steps of the sweep only; no step of
\* create changes the status of a record that exists.
C33_StatusChangedByRightPath ==
  [][\A k \in DOMAIN tbl :
       LET old == Get(tbl[k], "status", "active")
           new == Get(tbl'[k], "status", "active")
       IN /\ (old = "active" /\ new = "deleted") => DeleteMade
          /\ (old = "deleted" /\ new = "active") => SweepMade
          /\ CreateMade => new = old
    ]_vars

\* C34: the working set of a sweep holds no record that is deleted with
\* should_heal false or absent, so the loop never probes one; and no step of
\* the loop writes such a record or creates its bucket.
C34_TerminalRecordsAreSkipped ==
  /\ [](sweepPc = "loop" => \A item \in items : ~DeletedTerminal(item))
  /\ [][sweepPc = "loop"
          => \A k \in DOMAIN tbl :
               DeletedTerminal(tbl[k])
               => /\ tbl'[k] = tbl[k]
                  /\ ~(Absent(s3, tbl[k].bucket_name)
                       /\ Present(s3', tbl[k].bucket_name))
       ]_vars

\* a sweep has gone through its working set while the table holds a record
\* deleted for good
C34_Witness ==
  /\ sweepPc = "loop"
  /\ items = {}
  /\ processed_buckets = 1
  /\ \E k \in DOMAIN tbl :
       /\ DeletedTerminal(tbl[k])
       /\ tbl[k].deleted_at < sweepTs
       /\ Absent(s3, tbl[k].bucket_name)

\* ------------------------------------------------ the 'bucket exists' branch
\* the attributes of an item other than those in attrs
Except(item, attrs) == [a \in DOMAIN item \ attrs |-> item[a]]

\* the step is the loop iteration on item in which head_bucket answered 200
ProbedPresent(item) ==
  \E f \in HealFaults, create \in Outcomes : SweepItemStep(item, f, "ok", create)

\* C35: when the loop finds the bucket of a record that is deleted with
\* should_heal true, it creates no bucket and counts no heal, and its update,
\* if it returns, sets status to active, removes should_heal, sets
\* last_checked and leaves every other attribute (heal_count, healed_at, the
\* deletion metadata, the configuration) as it was; if the update fails the
\* record is unchanged.
C35_OutOfBandRestore ==
  [][\A item \in items \ items' :
       (DeletedHealable(item) /\ ProbedPresent(item))
       => LET k == item.project_name IN
          /\ s3' = s3
          /\ healed_buckets' = healed_buckets
          /\ Except(tbl', {k}) = Except(tbl, {k})
          /\ \/ tbl'[k] = tbl[k]
             \/ /\ tbl'[k].status = "active"
                /\ ~Has(tbl'[k], "should_heal")
                /\ tbl'[k].last_checked = sweepTs
                /\ Except(tbl'[k], {"status", "should_heal", "last_checked"})
                   = Except(tbl[k], {"status", "should_heal", "last_checked"})
    ]_vars

\* a provisionally deleted record whose bucket was there has been restored:
\* active, no should_heal, deletion metadata kept, no heal counted
C35_Witness ==
  /\ sweepPc = "loop"
  /\ healed_buckets = 0
  /\ \E k \in DOMAIN tbl :
       /\ tbl[k].status = "active"
       /\ Has(tbl[k], "deleted_at")
       /\ ~Has(tbl[k], "should_heal")
       /\ ~Has(tbl[k], "heal_count")
       /\ ~Has(tbl[k], "healed_at")
       /\ tbl[k].last_checked = sweepTs
       /\ Present(s3, tbl[k].bucket_name)

\* C36: when the loop finds the bucket of an active record, it issues no
\* other S3 call and counts no heal, and its update, if it returns, changes
\* last_checked and nothing else of the record; if the update fails the
\* record is unchanged.
C36_RefreshTouchesLastCheckedOnly ==
  [][\A item \in items \ items' :
       (Get(item, "status", "active") = "active" /\ ProbedPresent(item))
       => LET k == item.project_name IN
          /\ s3' = s3
          /\ healed_buckets' = healed_buckets
          /\ Except(tbl', {k}) = Except(tbl, {k})
          /\ \/ tbl'[k] = tbl[k]
             \/ /\ tbl'[k].last_checked = sweepTs
                /\ Except(tbl'[k], {"last_checked"}) = Except(tbl[k], {"last_checked"})
    ]_vars

\* an active record whose bucket is there has been refreshed by the running
\* sweep
C36_Witness ==
  /\ sweepPc = "loop"
  /\ healed_buckets = 0
  /\ \E k \in DOMAIN tbl :
       /\ tbl[k].status = "active"
       /\ (\A item \in items : item.project_name /= k)
       /\ tbl[k].last_checked = sweepTs
       /\ tbl[k].last_checked > tbl[k].created_at
       /\ DOMAIN Audit(tbl[k]) = {}
       /\ ~Has(tbl[k], "healed_at")
       /\ Present(s3, tbl[k].bucket_name)

\* the attributes that identify a record and its bucket
Identity(item) ==
  [a \in {"user_id", "user_email", "bucket_name", "display_name"} \cap DOMAIN item |->
     item[a]]

\* C37: no step removes a record from the table or changes its user_id,
\* user_email, bucket_name or display_name.
C37_IdentityIsImmutable ==
  [][\A k \in DOMAIN tbl :
       /\ k \in DOMAIN tbl'
       /\ Identity(tbl'[k]) = Identity(tbl[k])
    ]_vars

\* ------------------------------------------------- delete-bucket's failures
\* the request passes the metadata read and the authorisation of
\* delete-bucket: the key it resolves has a record and the actor is an admin
\* or the record's owner
Authorised(user_id, project_name, f, match) ==
  LET is_admin_user == is_super_admin(user_id, f.superOk)
                       \/ is_business_admin(user_id, f.businessOk)
      key == ResolveKey(tbl, user_id, project_name, is_admin_user, match)
  IN /\ f.getOk
     /\ key \in DOMAIN tbl
     /\ is_admin_user \/ tbl[key].user_id = user_id

\* the record a deletion by user_id at clock reading ts leaves
RecordsDeletion(item, user_id, ts, should_heal) ==
  /\ item.status = "deleted"
  /\ item.deleted_at = ts
  /\ item.deleted_by = user_id
  /\ item.should_heal = should_heal

\* C38: an authorised delete request whose delete_bucket fails with an error
\* other than NoSuchBucket is answered 500 and leaves the table and S3 as
\* they were; one whose delete_bucket answers NoSuchBucket is answered 200
\* and, when its update_item returns, leaves the record deleted with the
\* deletion metadata and the should_heal it computed.
C38_DeleteBucketFailure ==
  \A user_id \in Actors, project_name \in Projects, f \in DeleteFaults :
    \A match \in MatchChoices(user_id, project_name) :
      Authorised(user_id, project_name, f, match)
      => \A out \in {"NoSuchBucket", "error", "forbidden"} :
           LET r == DeleteOf(user_id, project_name, f, match, out) IN
           IF out = "NoSuchBucket"
             THEN /\ r.code = 200
                  /\ Absent(r.s3, tbl[r.key].bucket_name)
                  /\ f.dbOk => RecordsDeletion(r.tbl[r.key], user_id, now + 1,
                                               r.should_heal)
             ELSE /\ r.code = 500
                  /\ r.tbl = tbl
                  /\ r.s3 = s3

\* an active record has lost its bucket outside the system: its owner's
\* delete request is answered 200 and records the deletion; and the owner's
\* request on another record, whose bucket S3 fails to delete, is answered
\* 500 and changes nothing
C38_Witness ==
  \E k \in DOMAIN tbl, j \in DOMAIN tbl :
    /\ tbl[k].status = "active"
    /\ Absent(s3, tbl[k].bucket_name)
    /\ DeleteOf(k[1], k[2], NoFault, k, "NoSuchBucket").code = 200
    /\ DeleteOf(k[1], k[2], NoFault, k, "NoSuchBucket").tbl[k].status = "deleted"
    /\ tbl[j].status = "active"
    /\ Present(s3, tbl[j].bucket_name)
    /\ DeleteOf(j[1], j[2], NoFault, j, "error").code = 500
    /\ DeleteOf(j[1], j[2], NoFault, j, "error").tbl = tbl

\* the roles delete-bucket finds for the actor when the lookups answered as
\* in f: the allow-list needs no lookup, a group whose lookup failed is not
\* found
RolesFound(user_id, f) ==
  (IF user_id \in ADMIN_EMAILS THEN {"admins"} ELSE {})
  \cup (IF f.superOk THEN Groups(user_id) \cap {"admins"} ELSE {})
  \cup (IF f.businessOk THEN Groups(user_id) \cap {"business-admins"} ELSE {})

\* the requests in which a group lookup fails and nothing else does
LookupFailures == {f \in DeleteFaults : ~(f.superOk /\ f.businessOk)}

\* C39: a delete request in which a group lookup fails is answered as if the
\* actor were not in that group, never with an error of its own: with no
\* other role found, the owner's request is answered 200 with should_heal
\* false and records the deletion, and the request of an actor with no
\* record of that project is refused and leaves the table and S3 as they
\* were.
C39_GroupLookupFailure ==
  \A user_id \in Actors, project_name \in Projects, f \in LookupFailures :
    \A match \in MatchChoices(user_id, project_name) :
      LET r == DeleteOf(user_id, project_name, f, match, "ok")
          key == << user_id, project_name >>
      IN RolesFound(user_id, f) = {}
         => IF key \in DOMAIN tbl
              THEN /\ r.code = 200
                   /\ r.key = key
                   /\ r.should_heal = FALSE
                   /\ RecordsDeletion(r.tbl[key], user_id, now + 1, FALSE)
              ELSE /\ r.code \in {403, 404}
                   /\ r.tbl = tbl
                   /\ r.s3 = s3

\* alice's record is active with its bucket: with both lookups failing, the
\* business admin bob, who has no record of the project, is refused, and
\* carol, a super admin by her group, deletes her own record as its owner
C39_Witness ==
  LET f == [NoFault EXCEPT !.superOk = FALSE, !.businessOk = FALSE] IN
  /\ << "alice", "alpha" >> \in DOMAIN tbl
  /\ tbl[<< "alice", "alpha" >>].status = "active"
  /\ Present(s3, tbl[<< "alice", "alpha" >>].bucket_name)
  /\ << "bob", "alpha" >> \notin DOMAIN tbl
  /\ DeleteOf("bob", "alpha", f, << "alice", "alpha" >>, "ok").code = 404
  /\ << "carol", "alpha" >> \in DOMAIN tbl
  /\ tbl[<< "carol", "alpha" >>].status = "active"
  /\ DeleteOf("carol", "alpha", f, << "carol", "alpha" >>, "ok").code = 200
  /\ ~DeleteOf("carol", "alpha", f, << "carol", "alpha" >>, "ok").should_heal

\* ------------------------------------------------------- the sweep's result
\* the step raises the heal_count of the record of key k and leaves it active
HealedInStep(k) ==
  /\ HealCount(tbl'[k]) = HealCount(tbl[k]) + 1
  /\ tbl'[k].status = "active"

\* C40: every iteration of the loop raises processed_buckets by one, for the
\* record it handles, and an iteration on a record whose bucket is missing
\* raises healed_buckets by one if it has healed the record (status active,
\* heal_count raised) and leaves it alone otherwise, so that the counters
\* the sweep returns are the records it handled and the records it healed.
C40_SweepResultIsAccurate ==
  [][(sweepPc = "loop" /\ sweepPc' = "loop")
     => /\ processed_buckets' - processed_buckets = Cardinality(items \ items')
        /\ \A item \in items \ items' :
             Absent(s3, item.bucket_name)
             => healed_buckets' - healed_buckets
                = IF HealedInStep(item.project_name) THEN 1 ELSE 0
    ]_vars

====
